---- MODULE Spec2Model ----
(***************************************************************************)
(* A model of takumi's style-to-geometry pipeline:                         *)
(*   - the box tree builder (layout/tree.rs): NodeTree::from_node,         *)
(*     insert_into_taffy, measure and the inline item iterator;            *)
(*   - height / line-count bounded line breaking (layout/inline.rs);       *)
(*   - calc() parsing and resolution (layout/style/properties/length.rs).  *)
(* Each part has its own specification over the shared variables.          *)
(***************************************************************************)
EXTENDS Integers, Sequences, FiniteSets, TLC

VARIABLES
  \* ---- box tree builder (tree.rs)
  root,        \* the input node handed to NodeTree::from_node
  tree,        \* the NodeTree returned by from_node
  tpc,         \* position in the build / layout pipeline
  taffy,       \* node contexts stored in the TaffyTree, in insertion order
  measured,    \* number of taffy nodes whose measure() has returned
  laid_out,    \* number of taffy nodes passed by the inline layout pass
  items,       \* inline items yielded by the last run of the iterator
  fault,       \* the fatal path reached, or "none"
  \* ---- line breaking (inline.rs)
  lines,         \* heights of the lines an unconstrained break produces
  max_height,    \* the Option<MaxHeight> argument of break_lines
  layout,        \* heights of the lines committed to the layout
  prev_state,    \* the breaker's saved state: committed count before the
                 \* last break_next, or NoState
  total_height,  \* local total_height
  line_count,    \* local line_count (HeightAndLines) / loop counter (Lines)
  calls,         \* number of break_next calls made
  bpc,           \* position in break_lines
  \* ---- calc() lengths (length.rs)
  expr,             \* the calc() expression written in the style
  parsed,           \* Length::from_css on the tokens of expr
  parsed_expanded,  \* Length::from_css on the tokens of the expanded expr
  the_sizing,       \* the Sizing handed to to_px
  the_basis,        \* percentage_full_px handed to to_px
  px,               \* parsed.to_px(the_sizing, the_basis)
  px_expanded,      \* parsed_expanded.to_px(the_sizing, the_basis)
  cpc,              \* position in the parse / resolve pipeline
  \* ---- Length values (length.rs negative, make_computed, to_px)
  written,      \* the length as written in the style
  lv,           \* the Length value held by the style
  twin,         \* Length::from_css on calc( written )
  lsizing,      \* the Sizing of the node
  lbasis,       \* percentage_full_px of the node
  lv_prev,      \* the Length before the last operation
  lpx_prev,     \* lv_prev.to_px(lsizing, lbasis)
  lpx,          \* lv.to_px(lsizing, lbasis)
  lpx_twin,     \* twin.to_px(lsizing, lbasis)
  nops,         \* operations applied since parsing
  lpc,          \* the last operation applied
  \* ---- calc arena (length.rs CalcArena)
  linear_values,  \* the Vec<CalcLinear> of each CalcArena
  returned,       \* handles returned by register_linear so far, with the
                  \* arena and the linear value of the call
  resolved,       \* the last resolve_calc_value call and what it returned
  apc,            \* the last arena operation
  \* ---- transforms (transform.rs)
  transforms,  \* the declared transform list
  instance,    \* Transforms::to_affine of the list
  inverse,     \* instance.invert()
  forward,     \* instance * inverse
  backward,    \* inverse * instance
  point,       \* a point to transform
  folded,      \* point through every transform of the list in turn,
               \* last declared first
  direct,      \* point * instance
  fpc,         \* position in the transform pipeline
  \* ---- box blur (blur.rs)
  bwidth,      \* width of the buffer in pixels
  bheight,     \* height of the buffer in pixels
  channels,    \* bytes per pixel: 1 (alpha) or 4 (RGBA)
  src,         \* the bytes of the buffer before the operation
  request,     \* the blur type and CSS radius handed to apply_blur
  bradius,     \* the box radius of the operation
  dst,         \* the bytes written by the operation
  kpc,         \* the last blur operation
  \* ---- apply_blur step by step (blur.rs)
  img_format,    \* "Rgba" or "Alpha": the BlurFormat variant of the call
  img_width,     \* format.width()
  img_height,    \* format.height()
  img_data,      \* the caller's pixel buffer
  img_before,    \* the bytes of the caller's buffer when apply_blur was called
  temp_data,     \* the temporary buffer taken from the pool, or <<>> if none is held
  acquisitions,  \* number of buffers apply_blur has taken from the pool
  history,       \* the steps run so far: [op, reads, writes], oldest first
  outcome,       \* "none" while running, then "Ok", "Err" or "panic"
  iteration,     \* completed iterations of the for _ in 0..3 loop
  ask,           \* the radius (in half pixels) and blur_type arguments
  ppc,           \* position in apply_blur
  \* ---- one CalcArena shared by several threads (length.rs CalcArena)
  shared_values,    \* the Vec<CalcLinear> behind the RwLock
  writer,           \* the thread holding the write guard, or "none"
  readers,          \* the threads holding a read guard
  poisoned,         \* whether a writer panicked while holding the guard
  threads,          \* per thread: position, arguments and last result
  issued,           \* [thread, handle, linear] of every handle returned
  overflow_checks,  \* whether the build checks integer overflow
  panics,           \* number of writers that have panicked
  \* ---- fetch tasks (resources/task.rs FetchTaskCollection)
  collection,     \* the SmallVec of the FetchTaskCollection
  requested,      \* every task handed to insert or insert_many, in call order
  before_insert,  \* the SmallVec before the last call
  last_insert,    \* the tasks handed to the last call
  inner,          \* what into_inner returned
  qpc,            \* the last call made on the collection
  \* ---- create_inline_layout step by step (inline.rs)
  inline_items,    \* the items handed to create_inline_layout: "Text" or "Node"
  measuring,       \* the measure_only argument
  wrap_longhand,   \* style.parent.text_wrap_style, an Option ("unset" for None)
  wrap_shorthand,  \* style.parent.text_wrap.style
  built,           \* what the tree_builder closure has produced
  passes_run,      \* the steps run on the layout so far, oldest first
  ipc              \* position in create_inline_layout

treeVars == <<root, tree, tpc, taffy, measured, laid_out, items, fault>>

breakVars == <<lines, max_height, layout, prev_state, total_height, line_count, calls, bpc>>

calcVars == <<expr, parsed, parsed_expanded, the_sizing, the_basis, px, px_expanded, cpc>>

lengthVars ==
  <<written, lv, twin, lsizing, lbasis, lv_prev, lpx_prev, lpx, lpx_twin, nops, lpc>>

arenaVars == <<linear_values, returned, resolved, apc>>

affineVars == <<transforms, instance, inverse, forward, backward, point, folded, direct, fpc>>

blurVars == <<bwidth, bheight, channels, src, request, bradius, dst, kpc>>

applyVars == <<img_format, img_width, img_height, img_data, img_before, temp_data, acquisitions, history, outcome, iteration, ask, ppc>>

lockVars == <<shared_values, writer, readers, poisoned, threads, issued, overflow_checks, panics>>

taskVars == <<collection, requested, before_insert, last_insert, inner, qpc>>

inlineVars == <<inline_items, measuring, wrap_longhand, wrap_shorthand, built, passes_run, ipc>>

vars == <<treeVars, breakVars, calcVars, lengthVars, arenaVars, affineVars, blurVars, applyVars, lockVars, taskVars, inlineVars>>

notTreeVars == <<breakVars, calcVars, lengthVars, arenaVars, affineVars, blurVars, applyVars, lockVars, taskVars, inlineVars>>

notBreakVars == <<treeVars, calcVars, lengthVars, arenaVars, affineVars, blurVars, applyVars, lockVars, taskVars, inlineVars>>

notCalcVars == <<treeVars, breakVars, lengthVars, arenaVars, affineVars, blurVars, applyVars, lockVars, taskVars, inlineVars>>

notLengthVars == <<treeVars, breakVars, calcVars, arenaVars, affineVars, blurVars, applyVars, lockVars, taskVars, inlineVars>>

notArenaVars == <<treeVars, breakVars, calcVars, lengthVars, affineVars, blurVars, applyVars, lockVars, taskVars, inlineVars>>

notAffineVars == <<treeVars, breakVars, calcVars, lengthVars, arenaVars, blurVars, applyVars, lockVars, taskVars, inlineVars>>

notBlurVars == <<treeVars, breakVars, calcVars, lengthVars, arenaVars, affineVars, applyVars, lockVars, taskVars, inlineVars>>

notApplyVars == <<treeVars, breakVars, calcVars, lengthVars, arenaVars, affineVars, blurVars, lockVars, taskVars, inlineVars>>

notLockVars == <<treeVars, breakVars, calcVars, lengthVars, arenaVars, affineVars, blurVars, applyVars, taskVars, inlineVars>>

notTaskVars == <<treeVars, breakVars, calcVars, lengthVars, arenaVars, affineVars, blurVars, applyVars, lockVars, inlineVars>>

notInlineVars == <<treeVars, breakVars, calcVars, lengthVars, arenaVars, affineVars, blurVars, applyVars, lockVars, taskVars>>

-----------------------------------------------------------------------------
(* Bounds of the box tree inputs.                                          *)

\* children of a flat container (all of them text leaves)
MaxFlatKids == 4
\* children of the root of a two-level tree
MaxDeepKids == 1
\* children of a depth-1 container of a two-level tree
MaxGrandKids == 2

\* lines of the unconstrained break
MaxLines == 4
\* line heights are 0..MaxLineHeight
MaxLineHeight == 2
\* height caps are 0..MaxCapHeight
MaxCapHeight == 5
\* line caps are 0..MaxCapLines
MaxCapLines == 3

NoState == -1

-----------------------------------------------------------------------------
(* Display (layout/style, not under src/): the values and the three        *)
(* helpers tree.rs calls.                                                  *)

Displays == {"Block", "Inline", "Flex"}

should_blockify_children(d) == d = "Flex"

as_block(d) == IF d = "Inline" THEN "Block" ELSE d

to_block(d) == as_block(d)

-----------------------------------------------------------------------------
(* Input nodes.  A text node has no child list (take_children is None); a  *)
(* container has Some(children), possibly empty.                           *)

SeqsUpTo(S, n) == UNION {[1..k -> S] : k \in 0..n}

TextNode(d) == [kind |-> "text", display |-> d, children |-> <<>>]

ContainerNode(d, cs) == [kind |-> "container", display |-> d, children |-> cs]

TextNodes == {TextNode(d) : d \in Displays}

FlatInputs ==
  {ContainerNode(d, cs) : d \in Displays, cs \in SeqsUpTo(TextNodes, MaxFlatKids)}

DepthOneNodes ==
  TextNodes \cup
  {ContainerNode(d, cs) : d \in Displays, cs \in SeqsUpTo(TextNodes, MaxGrandKids)}

DeepInputs ==
  {ContainerNode(d, cs) : d \in Displays, cs \in SeqsUpTo(DepthOneNodes, MaxDeepKids)}

TreeInputs == TextNodes \cup FlatInputs \cup DeepInputs

take_children(n) ==
  IF n.kind = "container" THEN [some |-> TRUE, list |-> n.children]
  ELSE [some |-> FALSE, list |-> <<>>]

\* Node::inline_content: Some(Text) for a text node (node/text.rs), None otherwise
inline_content(n) == IF n.kind = "text" THEN "Text" ELSE "None"

-----------------------------------------------------------------------------
(* NodeTree.  node is the path of the input node it was built from, or     *)
(* NoNode for an anonymous box; style = display + the origin of the other  *)
(* style fields ("inherited" from take_style().inherit(parent), "default"  *)
(* for InheritedStyle::default()).                                         *)

NoNode == <<>>

NodeTree(node, kind, display, rest, some, children) ==
  [node |-> node, kind |-> kind, display |-> display, rest |-> rest,
   has_children |-> some, children |-> children]

is_inline(t) == t.display = "Inline"

should_construct_inline_layout(t) ==
  /\ t.display = "Block"
  /\ t.has_children
  /\ \E i \in 1..Len(t.children) : is_inline(t.children[i])

AnonymousBox(group) == NodeTree(NoNode, "none", "Block", "default", TRUE, group)

\* the loop without the flush of the last inline group after it
RECURSIVE WrapInlineRuns_NoFinalFlush(_, _, _, _)
WrapInlineRuns_NoFinalFlush(children, i, final_children, inline_group) ==
  IF i > Len(children)
  THEN final_children
  ELSE LET item == children[i] IN
       IF ~is_inline(item)
       THEN WrapInlineRuns_NoFinalFlush(children, i + 1,
              Append(IF inline_group # <<>>
                     THEN Append(final_children, AnonymousBox(inline_group))
                     ELSE final_children, item),
              <<>>)
       ELSE WrapInlineRuns_NoFinalFlush(children, i + 1, final_children,
                                        Append(inline_group, item))

\* the loop of from_node_impl over the built children (tree.rs 113-142)
RECURSIVE WrapInlineRuns(_, _, _, _)
WrapInlineRuns(children, i, final_children, inline_group) ==
  IF i > Len(children)
  THEN IF inline_group # <<>>
       THEN Append(final_children, AnonymousBox(inline_group))
       ELSE final_children
  ELSE LET item == children[i] IN
       IF ~is_inline(item)
       THEN WrapInlineRuns(children, i + 1,
              Append(IF inline_group # <<>>
                     THEN Append(final_children, AnonymousBox(inline_group))
                     ELSE final_children, item),
              <<>>)
       ELSE WrapInlineRuns(children, i + 1, final_children, Append(inline_group, item))

\* the test without has_block
needs_anonymous_boxes_NoHasBlock(display, children) ==
  /\ display = "Block"
  /\ \E i \in 1..Len(children) : is_inline(children[i])

needs_anonymous_boxes(display, children) ==
  /\ display = "Block"
  /\ \E i \in 1..Len(children) : is_inline(children[i])
  /\ \E i \in 1..Len(children) : ~is_inline(children[i])

\* the blockify branch without the to_block loop
BlockifyChildren_Skipped(children) == children

BlockifyChildren(children) ==
  [i \in 1..Len(children) |-> [children[i] EXCEPT !.display = to_block(@)]]

RECURSIVE from_node_impl(_, _)
from_node_impl(path, n) ==
  LET taken == take_children(n)
      children == [i \in 1..Len(taken.list) |->
                     from_node_impl(Append(path, i), taken.list[i])]
  IN IF ~taken.some
     THEN NodeTree(path, n.kind, n.display, "inherited", FALSE, <<>>)
     ELSE IF should_blockify_children(n.display)
     THEN NodeTree(path, n.kind, n.display, "inherited", TRUE, BlockifyChildren(children))
     ELSE IF ~needs_anonymous_boxes(n.display, children)
     THEN NodeTree(path, n.kind, n.display, "inherited", TRUE, children)
     ELSE NodeTree(path, n.kind, as_block(n.display), "inherited", TRUE,
                   WrapInlineRuns(children, 1, <<>>, <<>>))

RootPath == <<0>>

\* from_node without the blockification of the root
from_node_NoRootBlockify(n) == from_node_impl(RootPath, n)

from_node(n) ==
  LET t == from_node_impl(RootPath, n)
  IN IF is_inline(t) THEN [t EXCEPT !.display = to_block(@)] ELSE t

-----------------------------------------------------------------------------
(* insert_into_taffy: the contexts given to the TaffyTree in insertion     *)
(* order, or the fatal path.                                               *)

InlineWrapFault == "Inline nodes should be wrapped in anonymous block boxes"
RootBlockFault == "Root node must be display block"
NonRootInlineFault == "Non-root nodes must be display inline"

RECURSIVE insert_into_taffy(_)
RECURSIVE InsertChildren(_, _, _)
InsertChildren(children, i, acc) ==
  IF i > Len(children) \/ acc.fault # "none" THEN acc
  ELSE LET r == insert_into_taffy(children[i])
       IN InsertChildren(children, i + 1,
            [fault |-> r.fault, nodes |-> acc.nodes \o r.nodes])

insert_into_taffy(self) ==
  IF self.display = "Inline"
  THEN [fault |-> InlineWrapFault, nodes |-> <<>>]
  ELSE IF should_construct_inline_layout(self)
  THEN [fault |-> "none", nodes |-> <<self>>]
  ELSE InsertChildren(self.children, 1,
         [fault |-> "none",
          nodes |-> <<[self EXCEPT !.has_children = FALSE, !.children = <<>>]>>])

-----------------------------------------------------------------------------
(* InlineItemIterator                                                      *)

Reverse(s) == [i \in 1..Len(s) |-> s[Len(s) + 1 - i]]

\* an iterator that pushes the children in forward order
RECURSIVE IteratorNext_ForwardPush(_)
IteratorNext_ForwardPush(stk) ==
  IF stk = <<>>
  THEN [kind |-> "None", stack |-> <<>>, item |-> NoNode]
  ELSE LET top == stk[Len(stk)]
           popped == SubSeq(stk, 1, Len(stk) - 1)
       IN IF top.depth > 0 /\ top.box.display # "Inline"
          THEN [kind |-> "panic", stack |-> popped, item |-> NoNode]
          ELSE LET pushed ==
                     IF top.box.has_children
                     THEN popped \o [i \in 1..Len(top.box.children) |->
                            [box |-> top.box.children[i], depth |-> top.depth + 1]]
                     ELSE popped
               IN IF top.box.node # NoNode /\ inline_content(top.box) # "None"
                  THEN [kind |-> "Some", stack |-> pushed, item |-> top.box.node]
                  ELSE IteratorNext_ForwardPush(pushed)

\* one call of InlineItemIterator::next on the pending stack (top = last)
RECURSIVE IteratorNext(_)
IteratorNext(stk) ==
  IF stk = <<>>
  THEN [kind |-> "None", stack |-> <<>>, item |-> NoNode]
  ELSE LET top == stk[Len(stk)]
           popped == SubSeq(stk, 1, Len(stk) - 1)
       IN IF top.depth > 0 /\ top.box.display # "Inline"
          THEN [kind |-> "panic", stack |-> popped, item |-> NoNode]
          ELSE LET pushed ==
                     IF top.box.has_children
                     THEN popped \o [i \in 1..Len(top.box.children) |->
                            [box |-> Reverse(top.box.children)[i], depth |-> top.depth + 1]]
                     ELSE popped
               IN IF top.box.node # NoNode /\ inline_content(top.box) # "None"
                  THEN [kind |-> "Some", stack |-> pushed, item |-> top.box.node]
                  ELSE IteratorNext(pushed)

-----------------------------------------------------------------------------
(* The build / layout pipeline as steps.                                   *)

EmptyBox == NodeTree(NoNode, "none", "Block", "default", FALSE, <<>>)

\* `for (item, context) in self.inline_items_iter()`: next() is called until
\* it returns None or panics
RECURSIVE DrainIterator(_, _)
DrainIterator(stk, yielded) ==
  LET r == IteratorNext(stk)
  IN CASE r.kind = "panic" -> [fault |-> NonRootInlineFault, items |-> yielded]
       [] r.kind = "None" -> [fault |-> "none", items |-> yielded]
       [] r.kind = "Some" -> DrainIterator(r.stack, Append(yielded, r.item))

\* inline_items_iter (tree.rs 319-328) on box self, followed by the loop
InlineItems(self) ==
  IF self.display # "Block"
  THEN [fault |-> RootBlockFault, items |-> <<>>]
  ELSE DrainIterator(<<[box |-> self, depth |-> 0]>>, <<>>)

\* the box tree variables while another part runs
IdleTree ==
  /\ root = TextNode("Block")
  /\ tree = EmptyBox
  /\ tpc = "idle"
  /\ taffy = <<>>
  /\ measured = 0
  /\ laid_out = 0
  /\ items = <<>>
  /\ fault = "none"

\* the line breaking variables while another part runs
IdleBreak ==
  /\ lines = <<>>
  /\ max_height = [kind |-> "None", height |-> 0, lines |-> 0]
  /\ layout = <<>>
  /\ prev_state = NoState
  /\ total_height = 0
  /\ line_count = 0
  /\ calls = 0
  /\ bpc = "idle"

\* the calc() variables while another part runs
IdleCalc ==
  /\ expr = <<>>
  /\ parsed = <<>>
  /\ parsed_expanded = <<>>
  /\ the_sizing = <<>>
  /\ the_basis = <<0, 0>>
  /\ px = <<0, 0>>
  /\ px_expanded = <<0, 0>>
  /\ cpc = "idle"

\* the Length variables while another part runs
IdleLength ==
  /\ written = <<>>
  /\ lv = <<>>
  /\ twin = <<>>
  /\ lsizing = <<>>
  /\ lbasis = <<0, 0>>
  /\ lv_prev = <<>>
  /\ lpx_prev = <<0, 0>>
  /\ lpx = <<0, 0>>
  /\ lpx_twin = <<0, 0>>
  /\ nops = 0
  /\ lpc = "idle"

IdleArena ==
  /\ linear_values = <<>>
  /\ returned = {}
  /\ resolved = <<>>
  /\ apc = "idle"

IdleAffine ==
  /\ transforms = <<>>
  /\ instance = <<>>
  /\ inverse = <<>>
  /\ forward = <<>>
  /\ backward = <<>>
  /\ point = <<>>
  /\ folded = <<>>
  /\ direct = <<>>
  /\ fpc = "idle"

IdleBlur ==
  /\ bwidth = 0
  /\ bheight = 0
  /\ channels = 0
  /\ src = <<>>
  /\ request = <<>>
  /\ bradius = 0
  /\ dst = <<>>
  /\ kpc = "idle"

IdleApply ==
  /\ img_format = "Alpha"
  /\ img_width = 0
  /\ img_height = 0
  /\ img_data = <<>>
  /\ img_before = <<>>
  /\ temp_data = <<>>
  /\ acquisitions = 0
  /\ history = <<>>
  /\ outcome = "none"
  /\ iteration = 0
  /\ ask = <<>>
  /\ ppc = "idle"

IdleLock ==
  /\ shared_values = <<>>
  /\ writer = "none"
  /\ readers = {}
  /\ poisoned = FALSE
  /\ threads = <<>>
  /\ issued = {}
  /\ overflow_checks = FALSE
  /\ panics = 0

IdleTask ==
  /\ collection = <<>>
  /\ requested = <<>>
  /\ before_insert = <<>>
  /\ last_insert = <<>>
  /\ inner = <<>>
  /\ qpc = "idle"

IdleInline ==
  /\ inline_items = <<>>
  /\ measuring = FALSE
  /\ wrap_longhand = "unset"
  /\ wrap_shorthand = "Auto"
  /\ built = <<>>
  /\ passes_run = <<>>
  /\ ipc = "idle"

InitTree ==
  /\ root \in TreeInputs
  /\ tree = EmptyBox
  /\ tpc = "start"
  /\ taffy = <<>>
  /\ measured = 0
  /\ laid_out = 0
  /\ items = <<>>
  /\ fault = "none"
  /\ IdleBreak
  /\ IdleCalc
  /\ IdleLength
  /\ IdleArena
  /\ IdleAffine
  /\ IdleBlur
  /\ IdleApply
  /\ IdleLock
  /\ IdleTask
  /\ IdleInline

FromNode ==
  /\ tpc = "start"
  /\ tree' = from_node(root)
  /\ tpc' = "built"
  /\ UNCHANGED <<root, taffy, measured, laid_out, items, fault>>
  /\ UNCHANGED notTreeVars

InsertIntoTaffy ==
  /\ tpc = "built"
  /\ LET r == insert_into_taffy(tree)
     IN /\ fault' = r.fault
        /\ taffy' = r.nodes
        /\ tpc' = IF r.fault = "none" THEN "inserted" ELSE "fault"
  /\ UNCHANGED <<root, tree, measured, laid_out, items>>
  /\ UNCHANGED notTreeVars

\* measure (tree.rs 180-257) of the next taffy node, in insertion order
Measure ==
  /\ tpc = "inserted"
  /\ measured < Len(taffy)
  /\ LET self == taffy[measured + 1] IN
       IF should_construct_inline_layout(self)
       THEN LET r == InlineItems(self) IN
              /\ items' = r.items
              /\ fault' = r.fault
              /\ tpc' = IF r.fault = "none" THEN "inserted" ELSE "fault"
              /\ measured' = IF r.fault = "none" THEN measured + 1 ELSE measured
       ELSE IF self.display = "Inline"
       THEN /\ fault' = InlineWrapFault
            /\ tpc' = "fault"
            /\ UNCHANGED <<measured, items>>
       ELSE /\ measured' = measured + 1
            /\ UNCHANGED <<tpc, items, fault>>
  /\ UNCHANGED <<root, tree, taffy, laid_out>>
  /\ UNCHANGED notTreeVars

\* after layout, create_inline_layout (tree.rs 259-317) of the next taffy
\* node that constructs an inline layout; the other nodes are passed over
CreateInlineLayout ==
  /\ tpc = "inserted"
  /\ measured = Len(taffy)
  /\ laid_out < Len(taffy)
  /\ LET self == taffy[laid_out + 1] IN
       IF should_construct_inline_layout(self)
       THEN LET r == InlineItems(self) IN
              /\ items' = r.items
              /\ fault' = r.fault
              /\ tpc' = IF r.fault = "none" THEN "inserted" ELSE "fault"
              /\ laid_out' = IF r.fault = "none" THEN laid_out + 1 ELSE laid_out
       ELSE /\ laid_out' = laid_out + 1
            /\ UNCHANGED <<tpc, items, fault>>
  /\ UNCHANGED <<root, tree, taffy, measured>>
  /\ UNCHANGED notTreeVars

NextTree ==
  \/ FromNode
  \/ InsertIntoTaffy
  \/ Measure
  \/ CreateInlineLayout

SpecTree == InitTree /\ [][NextTree]_vars

-----------------------------------------------------------------------------
(* break_lines (inline.rs 194-262) over parley's line breaker.             *)

LineHeights == 0..MaxLineHeight

MaxHeights ==
  {[kind |-> "None", height |-> 0, lines |-> 0]}
  \cup {[kind |-> "Lines", height |-> 0, lines |-> n] : n \in 0..MaxCapLines}
  \cup {[kind |-> "Absolute", height |-> h, lines |-> 0] : h \in 0..MaxCapHeight}
  \cup {[kind |-> "HeightAndLines", height |-> h, lines |-> n] :
          h \in 0..MaxCapHeight, n \in 0..MaxCapLines}

\* the breaker (text-shaping collaborator): break_next commits the next line
\* and returns its height, or returns None when no line is left
break_next_is_some == Len(layout) < Len(lines)

break_next_height == lines[Len(layout) + 1]

BreakNext ==
  /\ calls' = calls + 1
  /\ IF break_next_is_some
     THEN /\ prev_state' = Len(layout)
          /\ layout' = Append(layout, break_next_height)
     ELSE UNCHANGED <<layout, prev_state>>

\* the breaker's revert: back to the state saved by the last break_next
Revert ==
  IF prev_state # NoState
  THEN /\ layout' = SubSeq(layout, 1, prev_state)
       /\ prev_state' = NoState
  ELSE UNCHANGED <<layout, prev_state>>

InitBreak ==
  /\ lines \in SeqsUpTo(LineHeights, MaxLines)
  /\ max_height \in MaxHeights
  /\ layout = <<>>
  /\ prev_state = NoState
  /\ total_height = 0
  /\ line_count = 0
  /\ calls = 0
  /\ bpc = "call"
  /\ IdleTree
  /\ IdleCalc
  /\ IdleLength
  /\ IdleArena
  /\ IdleAffine
  /\ IdleBlur
  /\ IdleApply
  /\ IdleLock
  /\ IdleTask
  /\ IdleInline

\* entry and the match on max_height (194-203); None breaks all lines
BreakLinesEnter ==
  /\ bpc = "call"
  /\ IF max_height.kind = "None"
     THEN /\ layout' = lines
          /\ bpc' = "done"
     ELSE /\ bpc' = CASE max_height.kind = "Lines" -> "lines_loop"
                      [] max_height.kind = "Absolute" -> "absolute_loop"
                      [] max_height.kind = "HeightAndLines" -> "height_and_lines_loop"
          /\ UNCHANGED layout
  /\ UNCHANGED <<lines, max_height, prev_state, total_height, line_count, calls>>
  /\ UNCHANGED notBreakVars

\* the Lines loop running one turn too many
LinesLoop_OneTurnMore ==
  /\ bpc = "lines_loop"
  /\ IF line_count <= max_height.lines
     THEN /\ BreakNext
          /\ IF break_next_is_some
             THEN /\ line_count' = line_count + 1
                  /\ UNCHANGED bpc
             ELSE /\ bpc' = "finish"
                  /\ UNCHANGED line_count
     ELSE /\ bpc' = "finish"
          /\ UNCHANGED <<layout, prev_state, line_count, calls>>
  /\ UNCHANGED <<lines, max_height, total_height>>
  /\ UNCHANGED notBreakVars

\* one turn of `for _ in 0..lines` (207-212)
LinesLoop ==
  /\ bpc = "lines_loop"
  /\ IF line_count < max_height.lines
     THEN /\ BreakNext
          /\ IF break_next_is_some
             THEN /\ line_count' = line_count + 1
                  /\ UNCHANGED bpc
             ELSE /\ bpc' = "finish"
                  /\ UNCHANGED line_count
     ELSE /\ bpc' = "finish"
          /\ UNCHANGED <<layout, prev_state, line_count, calls>>
  /\ UNCHANGED <<lines, max_height, total_height>>
  /\ UNCHANGED notBreakVars

\* one turn of `while total_height < max_height` (220-227)
AbsoluteLoop ==
  /\ bpc = "absolute_loop"
  /\ IF total_height < max_height.height
     THEN /\ BreakNext
          /\ IF break_next_is_some
             THEN /\ total_height' = total_height + break_next_height
                  /\ UNCHANGED bpc
             ELSE /\ bpc' = "absolute_check"
                  /\ UNCHANGED total_height
     ELSE /\ bpc' = "absolute_check"
          /\ UNCHANGED <<layout, prev_state, total_height, calls>>
  /\ UNCHANGED <<lines, max_height, line_count>>
  /\ UNCHANGED notBreakVars

\* the Absolute branch without the revert of the overshooting line
AbsoluteCheck_NoRevert ==
  /\ bpc = "absolute_check"
  /\ bpc' = "finish"
  /\ UNCHANGED <<lines, max_height, layout, prev_state, total_height, line_count, calls>>
  /\ UNCHANGED notBreakVars

\* `if total_height > max_height { breaker.revert() }` (229-232)
AbsoluteCheck ==
  /\ bpc = "absolute_check"
  /\ IF total_height > max_height.height
     THEN Revert
     ELSE UNCHANGED <<layout, prev_state>>
  /\ bpc' = "finish"
  /\ UNCHANGED <<lines, max_height, total_height, line_count, calls>>
  /\ UNCHANGED notBreakVars

\* one turn of the HeightAndLines loop (241-253)
HeightAndLinesLoop ==
  /\ bpc = "height_and_lines_loop"
  /\ IF total_height < max_height.height /\ ~(line_count >= max_height.lines)
     THEN /\ BreakNext
          /\ IF break_next_is_some
             THEN /\ line_count' = line_count + 1
                  /\ total_height' = total_height + break_next_height
                  /\ UNCHANGED bpc
             ELSE /\ bpc' = "height_and_lines_check"
                  /\ UNCHANGED <<line_count, total_height>>
     ELSE /\ bpc' = "height_and_lines_check"
          /\ UNCHANGED <<layout, prev_state, total_height, line_count, calls>>
  /\ UNCHANGED <<lines, max_height>>
  /\ UNCHANGED notBreakVars

\* `if total_height > max_height { breaker.revert() }` (255-257)
HeightAndLinesCheck ==
  /\ bpc = "height_and_lines_check"
  /\ IF total_height > max_height.height
     THEN Revert
     ELSE UNCHANGED <<layout, prev_state>>
  /\ bpc' = "finish"
  /\ UNCHANGED <<lines, max_height, total_height, line_count, calls>>
  /\ UNCHANGED notBreakVars

\* breaker.finish() (214, 234, 259)
Finish ==
  /\ bpc = "finish"
  /\ bpc' = "done"
  /\ UNCHANGED <<lines, max_height, layout, prev_state, total_height, line_count, calls>>
  /\ UNCHANGED notBreakVars

NextBreak ==
  \/ BreakLinesEnter
  \/ LinesLoop
  \/ AbsoluteLoop
  \/ AbsoluteCheck
  \/ HeightAndLinesLoop
  \/ HeightAndLinesCheck
  \/ Finish

SpecBreak == InitBreak /\ [][NextBreak]_vars

-----------------------------------------------------------------------------
(* calc() values (length.rs).  An f32 is modelled as <<m, e>>, the value   *)
(* m * 2^e, in canonical form: m = 0 and e = 0, or m odd with |m| < 2^24.  *)
(* Every arithmetic operation returns the exact result rounded to the      *)
(* nearest such value, ties to the even significand (IEEE 754 binary32     *)
(* round-to-nearest-even).  The exponent range (overflow to infinity,      *)
(* subnormals) and NaN are not modelled.                                    *)

Abs(x) == IF x < 0 THEN -x ELSE x

\* the element of a one-element set; {body : v \in {value}} evaluates value
\* once before body uses it
Only(S) == CHOOSE v \in S : TRUE

\* number of significant bits of a, 0 <= a < 2^31
BitLen(a) == Cardinality({k \in 0..30 : 2^k <= a})

\* number of trailing zero bits of a, 0 < a < 2^31
TrailingZeros(a) == Cardinality({k \in 1..30 : a % 2^k = 0})

F32Canon(negative, mag, e) ==
  IF mag = 0 THEN <<0, 0>>
  ELSE Only({<<(IF negative THEN -mag ELSE mag) \div 2^tz, e + tz>> :
               tz \in {TrailingZeros(mag)}})

\* the value (mag + g) * 2^e, 0 <= g < 1 and g > 0 iff sticky, rounded to a
\* 24-bit significand; sticky is only passed with mag >= 2^24
F32Round(negative, mag0, sticky, e) ==
  Only({ IF l <= 24 THEN F32Canon(negative, mag, e)
         ELSE Only({ F32Canon(negative,
                              IF qr[2] > p \div 2
                                 \/ (qr[2] = p \div 2 /\ (sticky \/ qr[1] % 2 = 1))
                              THEN qr[1] + 1 ELSE qr[1],
                              e + l - 24) :
                     p \in {2^(l - 24)}, qr \in {<<mag \div 2^(l - 24), mag % 2^(l - 24)>>} })
         : mag \in {mag0}, l \in {BitLen(mag0)} })

F32FromInt(n) == F32Round(n < 0, Abs(n), FALSE, 0)

F32Zero == <<0, 0>>

F32Neg(x) == Only({<<-v[1], v[2]>> : v \in {x}})

\* x + y where x[2] >= y[2], both nonzero
F32AddOrdered(x, y) ==
  Only({ IF l1 + d <= 30
         THEN Only({F32Round(s < 0, Abs(s), FALSE, y[2]) : s \in {x[1] * 2^d + y[1]}})
         ELSE Only({ F32Round(x[1] < 0,
                              IF (x[1] < 0) = (y[1] < 0) THEN M1 + qy
                              ELSE IF lost THEN M1 - qy - 1 ELSE M1 - qy,
                              lost, x[2] - (30 - l1)) :
                     M1 \in {Abs(x[1]) * 2^(30 - l1)},
                     qy \in {IF d - (30 - l1) >= 25 THEN 0
                             ELSE Abs(y[1]) \div 2^(d - (30 - l1))},
                     lost \in {IF d - (30 - l1) >= 25 THEN TRUE
                               ELSE Abs(y[1]) % 2^(d - (30 - l1)) # 0} })
         : l1 \in {BitLen(Abs(x[1]))}, d \in {x[2] - y[2]} })

F32Add(x0, y0) ==
  Only({ IF x[1] = 0 THEN y
         ELSE IF y[1] = 0 THEN x
         ELSE IF x[2] >= y[2] THEN F32AddOrdered(x, y)
         ELSE F32AddOrdered(y, x)
         : x \in {x0}, y \in {y0} })

F32Sub(x, y) == F32Add(x, F32Neg(y))

\* a1 * a2 = H * 2^24 + L for a1, a2 < 2^24, as <<H, L>>
WideProduct(a1, a2) ==
  Only({ Only({ <<(a1 \div 4096) * (a2 \div 4096) + mid \div 4096 + Lp \div 16777216,
                  Lp % 16777216>> :
                Lp \in {(a1 % 4096) * (a2 % 4096) + (mid % 4096) * 4096} })
         : mid \in {(a1 \div 4096) * (a2 % 4096) + (a1 % 4096) * (a2 \div 4096)} })

F32Mul(x0, y0) ==
  Only({ IF x[1] = 0 \/ y[1] = 0 THEN F32Zero
         ELSE IF BitLen(Abs(x[1])) + BitLen(Abs(y[1])) <= 30
         THEN F32Round((x[1] < 0) # (y[1] < 0), Abs(x[1]) * Abs(y[1]), FALSE, x[2] + y[2])
         ELSE \* the product has more than 30 bits, H >= 2^5: keep its top 30 bits
              Only({ Only({ F32Round((x[1] < 0) # (y[1] < 0),
                                     HL[1] * 2^(30 - kH) + HL[2] \div 2^(kH - 6),
                                     HL[2] % 2^(kH - 6) # 0,
                                     x[2] + y[2] + kH - 6) :
                            kH \in {BitLen(HL[1])} })
                     : HL \in {WideProduct(Abs(x[1]), Abs(y[1]))} })
         : x \in {x0}, y \in {y0} })

\* t steps of binary long division: <<quotient, remainder>>
RECURSIVE LongDiv(_, _, _, _)
LongDiv(q, r, b, t) ==
  IF t = 0 THEN <<q, r>>
  ELSE Only({ LongDiv(n[1], n[2], b, n[3]) :
              n \in {IF 2 * r >= b THEN <<2 * q + 1, 2 * r - b, t - 1>>
                     ELSE <<2 * q, 2 * r, t - 1>>} })

\* x / y for y # 0
F32Div(x0, y0) ==
  Only({ IF x[1] = 0 THEN F32Zero
         ELSE Only({ F32Round((x[1] < 0) # (y[1] < 0), qr[1], qr[2] # 0,
                              x[2] - y[2] - t) :
                     qr \in {LongDiv(a \div b, a % b, b, t)} })
         : x \in {x0}, y \in {y0}, a \in {Abs(x0[1])}, b \in {Abs(y0[1])},
           t \in {26 - BitLen(Abs(x0[1])) + BitLen(Abs(y0[1]))} })

\* x <= y
F32Le(x, y) == F32Sub(x, y)[1] <= 0

F32Abs(x) == <<Abs(x[1]), x[2]>>

\* a decimal literal n / d, d a power of ten
F32Literal(n, d) == F32Div(F32FromInt(n), F32FromInt(d))

ONE_CM_IN_PX == F32Div(F32FromInt(96), F32Literal(254, 100))
ONE_MM_IN_PX == F32Div(ONE_CM_IN_PX, F32FromInt(10))
ONE_Q_IN_PX == F32Div(ONE_CM_IN_PX, F32FromInt(40))
ONE_IN_PX == F32Mul(F32Literal(254, 100), ONE_CM_IN_PX)
ONE_PT_IN_PX == F32Div(ONE_IN_PX, F32FromInt(72))
ONE_PC_IN_PX == F32Div(ONE_IN_PX, F32FromInt(6))

\* the fields of CalcFormula
FormulaFields ==
  {"px", "percent", "rem", "em", "vh", "vw", "cm", "mm", "inch", "q", "pt", "pc"}

CalcFormula_default == [u \in FormulaFields |-> F32Zero]

\* CalcFormula::px, ::percentage, ::rem, ... : one field set, the rest default
CalcFormula_of(field, value) == [CalcFormula_default EXCEPT ![field] = value]

CalcFormula_neg(self) == [u \in FormulaFields |-> F32Neg(self[u])]

CalcFormula_add(self, rhs) == [u \in FormulaFields |-> F32Add(self[u], rhs[u])]

CalcFormula_sub(self, rhs) == [u \in FormulaFields |-> F32Sub(self[u], rhs[u])]

\* scaling that reaches the px coefficient only
CalcFormula_scale_PxOnly(self, factor) ==
  [self EXCEPT !["px"] = F32Mul(self["px"], factor)]

CalcFormula_scale(self, factor) == [u \in FormulaFields |-> F32Mul(self[u], factor)]

\* Option<u32>::unwrap_or_default() as f32
unwrap_or_default(opt) == IF opt.some THEN F32FromInt(opt.value) ELSE F32Zero

CalcFormula_resolve(self, sizing) ==
  Only({ [px |->
            F32Add(F32Add(F32Add(F32Add(F32Add(F32Add(F32Add(F32Add(F32Add(F32Add(
              F32Mul(self["px"], dpr),
              F32Mul(F32Mul(self["rem"], sizing.viewport.font_size), dpr)),
              F32Mul(self["em"], sizing.font_size)),
              F32Div(F32Mul(self["vh"], unwrap_or_default(sizing.viewport.height)), hundred)),
              F32Div(F32Mul(self["vw"], unwrap_or_default(sizing.viewport.width)), hundred)),
              F32Mul(F32Mul(self["cm"], ONE_CM_IN_PX), dpr)),
              F32Mul(F32Mul(self["mm"], ONE_MM_IN_PX), dpr)),
              F32Mul(F32Mul(self["inch"], ONE_IN_PX), dpr)),
              F32Mul(F32Mul(self["q"], ONE_Q_IN_PX), dpr)),
              F32Mul(F32Mul(self["pt"], ONE_PT_IN_PX), dpr)),
              F32Mul(F32Mul(self["pc"], ONE_PC_IN_PX), dpr)),
          percent |-> self["percent"]]
         : dpr \in {sizing.viewport.device_pixel_ratio}, hundred \in {F32FromInt(100)} })

CalcLinear_resolve(self, basis) ==
  Only({F32Add(linear.px, F32Mul(linear.percent, basis)) : linear \in {self}})

\* enum CalcValue
CalcValue_Number(v) == [number |-> TRUE, value |-> v, formula |-> CalcFormula_default]

CalcValue_Formula(f) == [number |-> FALSE, value |-> F32Zero, formula |-> f]

-----------------------------------------------------------------------------
(* cssparser tokens: Number, Percentage (unit_value), Dimension, Delim and *)
(* Function (with the tokens of its block).                                *)

NumberTok(v) == [t |-> "Number", value |-> v, unit |-> "", block |-> <<>>]

PercentageTok(unit_value) ==
  [t |-> "Percentage", value |-> unit_value, unit |-> "%", block |-> <<>>]

DimensionTok(v, unit) == [t |-> "Dimension", value |-> v, unit |-> unit, block |-> <<>>]

DelimTok(c) == [t |-> "Delim", value |-> F32Zero, unit |-> c, block |-> <<>>]

FunctionTok(name, block) == [t |-> "Function", value |-> F32Zero, unit |-> name, block |-> block]

\* input.try_parse(|parser| parser.expect_delim(c)).is_ok()
try_expect_delim(input, c) ==
  input # <<>> /\ Head(input).t = "Delim" /\ Head(input).unit = c

\* the CalcFormula field a dimension unit selects (parse_calc_factor 399-412)
UnitField(unit) ==
  CASE unit = "px" -> "px"
    [] unit = "em" -> "em"
    [] unit = "rem" -> "rem"
    [] unit = "vw" -> "vw"
    [] unit = "vh" -> "vh"
    [] unit = "cm" -> "cm"
    [] unit = "mm" -> "mm"
    [] unit = "in" -> "inch"
    [] unit = "q" -> "q"
    [] unit = "pt" -> "pt"
    [] unit = "pc" -> "pc"
    [] OTHER -> "none"

ParseErr(input) == [ok |-> FALSE, value |-> CalcValue_Number(F32Zero), rest |-> input]

ParseOk(value, input) == [ok |-> TRUE, value |-> value, rest |-> input]

\* the match of parse_calc_sum on '+' (294-303)
AddValues(lhs, rhs) ==
  IF lhs.number /\ rhs.number
  THEN [ok |-> TRUE, value |-> CalcValue_Number(F32Add(lhs.value, rhs.value))]
  ELSE IF ~lhs.number /\ ~rhs.number
  THEN [ok |-> TRUE, value |-> CalcValue_Formula(CalcFormula_add(lhs.formula, rhs.formula))]
  ELSE [ok |-> FALSE, value |-> lhs]

\* the match of parse_calc_sum on '-' (309-318)
SubValues(lhs, rhs) ==
  IF lhs.number /\ rhs.number
  THEN [ok |-> TRUE, value |-> CalcValue_Number(F32Sub(lhs.value, rhs.value))]
  ELSE IF ~lhs.number /\ ~rhs.number
  THEN [ok |-> TRUE, value |-> CalcValue_Formula(CalcFormula_sub(lhs.formula, rhs.formula))]
  ELSE [ok |-> FALSE, value |-> lhs]

\* the match of parse_calc_product on '*' (334-344)
MulValues(lhs, rhs) ==
  IF ~lhs.number /\ rhs.number
  THEN [ok |-> TRUE, value |-> CalcValue_Formula(CalcFormula_scale(lhs.formula, rhs.value))]
  ELSE IF lhs.number /\ ~rhs.number
  THEN [ok |-> TRUE, value |-> CalcValue_Formula(CalcFormula_scale(rhs.formula, lhs.value))]
  ELSE IF lhs.number /\ rhs.number
  THEN [ok |-> TRUE, value |-> CalcValue_Number(F32Mul(lhs.value, rhs.value))]
  ELSE [ok |-> FALSE, value |-> lhs]

\* the match on '/' without its first arm
DivValues_NoZeroArm(lhs, rhs) ==
  IF rhs.number /\ rhs.value = F32Zero
  THEN [ok |-> TRUE, value |-> lhs]
  ELSE IF ~lhs.number /\ rhs.number
  THEN [ok |-> TRUE,
        value |-> CalcValue_Formula(
                    CalcFormula_scale(lhs.formula, F32Div(F32FromInt(1), rhs.value)))]
  ELSE IF lhs.number /\ rhs.number
  THEN [ok |-> TRUE, value |-> CalcValue_Number(F32Div(lhs.value, rhs.value))]
  ELSE [ok |-> FALSE, value |-> lhs]

\* the match of parse_calc_product on '/' (350-367)
DivValues(lhs, rhs) ==
  IF rhs.number /\ rhs.value = F32Zero
  THEN [ok |-> FALSE, value |-> lhs]
  ELSE IF ~lhs.number /\ rhs.number
  THEN [ok |-> TRUE,
        value |-> CalcValue_Formula(
                    CalcFormula_scale(lhs.formula, F32Div(F32FromInt(1), rhs.value)))]
  ELSE IF lhs.number /\ rhs.number
  THEN [ok |-> TRUE, value |-> CalcValue_Number(F32Div(lhs.value, rhs.value))]
  ELSE [ok |-> FALSE, value |-> lhs]

RECURSIVE parse_calc_sum(_)
RECURSIVE parse_calc_sum_loop(_, _)
RECURSIVE parse_calc_product(_)
RECURSIVE parse_calc_product_loop(_, _)
RECURSIVE parse_calc_factor(_)
RECURSIVE ProductTurn(_, _, _)
RECURSIVE SumTurn(_, _, _)

\* input.parse_nested_block(parse_calc_sum): the block must be consumed whole
parse_nested_block(block, rest) ==
  Only({ IF r.ok /\ r.rest = <<>> THEN ParseOk(r.value, rest) ELSE ParseErr(rest)
         : r \in {parse_calc_sum(block)} })

parse_calc_factor(input) ==
  IF try_expect_delim(input, "+")
  THEN parse_calc_factor(Tail(input))
  ELSE IF try_expect_delim(input, "-")
  THEN Only({ IF ~r.ok THEN r
              ELSE IF r.value.number
              THEN ParseOk(CalcValue_Number(F32Neg(r.value.value)), r.rest)
              ELSE ParseOk(CalcValue_Formula(CalcFormula_neg(r.value.formula)), r.rest)
              : r \in {parse_calc_factor(Tail(input))} })
  ELSE IF input = <<>>
  THEN ParseErr(input)
  ELSE Only({ CASE token.t = "Number" -> ParseOk(CalcValue_Number(token.value), rest)
                [] token.t = "Percentage" ->
                     ParseOk(CalcValue_Formula(CalcFormula_of("percent", token.value)), rest)
                [] token.t = "Dimension" ->
                     IF UnitField(token.unit) # "none"
                     THEN ParseOk(CalcValue_Formula(
                                    CalcFormula_of(UnitField(token.unit), token.value)), rest)
                     ELSE ParseErr(rest)
                [] token.t = "Function" /\ token.unit = "calc" ->
                     parse_nested_block(token.block, rest)
                [] OTHER -> ParseErr(rest)
              : token \in {Head(input)}, rest \in {Tail(input)} })

\* one turn of the loop of parse_calc_product on an operator: the right
\* operand is parsed, combined, and the loop goes on
ProductTurn(value, rhs, times) ==
  IF ~rhs.ok THEN rhs
  ELSE Only({ IF v.ok THEN parse_calc_product_loop(v.value, rhs.rest)
              ELSE ParseErr(rhs.rest)
              : v \in {IF times THEN MulValues(value, rhs.value)
                       ELSE DivValues(value, rhs.value)} })

\* the loop of parse_calc_product (331-372)
parse_calc_product_loop(value, input) ==
  IF try_expect_delim(input, "*")
  THEN Only({ProductTurn(value, rhs, TRUE) : rhs \in {parse_calc_factor(Tail(input))}})
  ELSE IF try_expect_delim(input, "/")
  THEN Only({ProductTurn(value, rhs, FALSE) : rhs \in {parse_calc_factor(Tail(input))}})
  ELSE ParseOk(value, input)

parse_calc_product(input) ==
  Only({ IF ~first.ok THEN first ELSE parse_calc_product_loop(first.value, first.rest)
         : first \in {parse_calc_factor(input)} })

\* one turn of the loop of parse_calc_sum on an operator
SumTurn(value, rhs, plus) ==
  IF ~rhs.ok THEN rhs
  ELSE Only({ IF v.ok THEN parse_calc_sum_loop(v.value, rhs.rest)
              ELSE ParseErr(rhs.rest)
              : v \in {IF plus THEN AddValues(value, rhs.value)
                       ELSE SubValues(value, rhs.value)} })

\* the loop of parse_calc_sum (291-323)
parse_calc_sum_loop(value, input) ==
  IF try_expect_delim(input, "+")
  THEN Only({SumTurn(value, rhs, TRUE) : rhs \in {parse_calc_product(Tail(input))}})
  ELSE IF try_expect_delim(input, "-")
  THEN Only({SumTurn(value, rhs, FALSE) : rhs \in {parse_calc_product(Tail(input))}})
  ELSE ParseOk(value, input)

parse_calc_sum(input) ==
  Only({ IF ~first.ok THEN first ELSE parse_calc_sum_loop(first.value, first.rest)
         : first \in {parse_calc_product(input)} })

-----------------------------------------------------------------------------
(* Length, Length::from_css and Length::to_px (length.rs).                 *)

CalcLinear_default == [px |-> F32Zero, percent |-> F32Zero]

CalcHandle_None == [kind |-> "None", formula |-> CalcFormula_default, linear |-> CalcLinear_default]

CalcHandle_Formula(f) == [kind |-> "Formula", formula |-> f, linear |-> CalcLinear_default]

CalcHandle_Linear(l) == [kind |-> "Linear", formula |-> CalcFormula_default, linear |-> l]

\* a Length variant carrying an f32
Length(variant, value) == [variant |-> variant, value |-> value, handle |-> CalcHandle_None]

Length_Auto == Length("Auto", F32Zero)

Length_Calc(handle) == [variant |-> "Calc", value |-> F32Zero, handle |-> handle]

IdentTok(name) == [t |-> "Ident", value |-> F32Zero, unit |-> name, block |-> <<>>]

\* the Length variant a dimension unit selects (from_css 574-585)
UnitVariant(unit) ==
  CASE unit = "px" -> "Px"
    [] unit = "em" -> "Em"
    [] unit = "rem" -> "Rem"
    [] unit = "vw" -> "Vw"
    [] unit = "vh" -> "Vh"
    [] unit = "cm" -> "Cm"
    [] unit = "mm" -> "Mm"
    [] unit = "in" -> "In"
    [] unit = "q" -> "Q"
    [] unit = "pt" -> "Pt"
    [] unit = "pc" -> "Pc"
    [] OTHER -> "none"

FromCssErr == [ok |-> FALSE, value |-> Length_Auto]

FromCssOk(length) == [ok |-> TRUE, value |-> length]

from_css(input) ==
  IF input = <<>> THEN FromCssErr
  ELSE LET token == Head(input)
       IN CASE token.t = "Ident" ->
                 IF token.unit = "auto" THEN FromCssOk(Length_Auto) ELSE FromCssErr
            [] token.t = "Function" /\ token.unit = "calc" ->
                 Only({ IF ~r.ok THEN FromCssErr
                        ELSE IF r.value.number THEN FromCssOk(Length("Px", r.value.value))
                        ELSE FromCssOk(Length_Calc(CalcHandle_Formula(r.value.formula)))
                        : r \in {parse_nested_block(token.block, Tail(input))} })
            [] token.t = "Dimension" ->
                 IF UnitVariant(token.unit) # "none"
                 THEN FromCssOk(Length(UnitVariant(token.unit), token.value))
                 ELSE FromCssErr
            [] token.t = "Percentage" ->
                 FromCssOk(Length("Percentage", F32Mul(token.value, F32FromInt(100))))
            [] token.t = "Number" -> FromCssOk(Length("Px", token.value))
            [] OTHER -> FromCssErr

calc_handle_to_linear(handle, s) ==
  IF handle.kind = "Formula" THEN CalcFormula_resolve(handle.formula, s) ELSE handle.linear

to_px_pre_dpr(self, s, percentage_full_px) ==
  LET value == self.value
      hundred == F32FromInt(100)
  IN CASE self.variant = "Auto" -> F32Zero
       [] self.variant = "Px" -> value
       [] self.variant = "Percentage" -> F32Mul(F32Div(value, hundred), percentage_full_px)
       [] self.variant = "Rem" -> F32Mul(value, s.viewport.font_size)
       [] self.variant = "Em" -> F32Mul(value, s.font_size)
       [] self.variant = "Vh" ->
            F32Div(F32Mul(value, unwrap_or_default(s.viewport.height)), hundred)
       [] self.variant = "Vw" ->
            F32Div(F32Mul(value, unwrap_or_default(s.viewport.width)), hundred)
       [] self.variant = "Cm" -> F32Mul(value, ONE_CM_IN_PX)
       [] self.variant = "Mm" -> F32Mul(value, ONE_MM_IN_PX)
       [] self.variant = "In" -> F32Mul(value, ONE_IN_PX)
       [] self.variant = "Q" -> F32Mul(value, ONE_Q_IN_PX)
       [] self.variant = "Pt" -> F32Mul(value, ONE_PT_IN_PX)
       [] self.variant = "Pc" -> F32Mul(value, ONE_PC_IN_PX)
       [] self.variant = "Calc" ->
            CalcLinear_resolve(calc_handle_to_linear(self.handle, s), percentage_full_px)

\* to_px that also scales em lengths by the device pixel ratio
to_px_EmScaled(self, s, percentage_full_px) ==
  LET value == to_px_pre_dpr(self, s, percentage_full_px)
  IN IF self.variant \in {"Auto", "Percentage", "Vh", "Vw", "Calc"}
     THEN value
     ELSE F32Mul(value, s.viewport.device_pixel_ratio)

to_px(self, s, percentage_full_px) ==
  LET value == to_px_pre_dpr(self, s, percentage_full_px)
  IN IF self.variant \in {"Auto", "Percentage", "Vh", "Vw", "Em", "Calc"}
     THEN value
     ELSE F32Mul(value, s.viewport.device_pixel_ratio)

-----------------------------------------------------------------------------
(* calc() expressions as written by a stylesheet author, their tokens, and *)
(* their algebraically expanded form.                                      *)

MaxNumber == 3

Num(n) == [op |-> "num", value |-> n, unit |-> "", args |-> <<>>]

Dim(n, unit) == [op |-> "dim", value |-> n, unit |-> unit, args |-> <<>>]

Pct(n) == [op |-> "pct", value |-> n, unit |-> "%", args |-> <<>>]

Bin(op, l, r) == [op |-> op, value |-> 0, unit |-> "", args |-> <<l, r>>]

Neg(e) == [op |-> "neg", value |-> 0, unit |-> "", args |-> <<e>>]

Calc(e) == [op |-> "calc", value |-> 0, unit |-> "", args |-> <<e>>]

BinOps == {"add", "sub", "mul", "div"}

NumLeaves == {Num(n) : n \in 0..MaxNumber}

\* 2^24 px is the first magnitude at which f32 cannot hold every integer
DimLeaves == {Dim(3, "px"), Pct(50), Dim(2, "em"), Dim(2^24, "px")}

Leaves == NumLeaves \cup DimLeaves

DepthOneExprs ==
  {Bin(op, l, r) : op \in BinOps, l \in Leaves, r \in Leaves}
    \cup {Neg(e) : e \in Leaves} \cup {Calc(e) : e \in Leaves}

DepthTwoExprs ==
  {Bin(op, l, r) : op \in BinOps, l \in DepthOneExprs, r \in Leaves}
    \cup {Bin(op, l, r) : op \in BinOps, l \in Leaves, r \in DepthOneExprs}
    \cup {Neg(e) : e \in DepthOneExprs} \cup {Calc(e) : e \in DepthOneExprs}

ExprInputs == Leaves \cup DepthOneExprs \cup DepthTwoExprs

\* the token cssparser produces for a leaf
LeafTok(e) ==
  CASE e.op = "num" -> NumberTok(F32FromInt(e.value))
    [] e.op = "dim" -> DimensionTok(F32FromInt(e.value), e.unit)
    [] e.op = "pct" -> PercentageTok(F32Div(F32FromInt(e.value), F32FromInt(100)))
    [] e.op = "permille" -> PercentageTok(F32Div(F32FromInt(e.value), F32FromInt(1000)))
    [] e.op = "auto" -> IdentTok("auto")

OpDelim(op) ==
  CASE op = "add" -> "+" [] op = "sub" -> "-" [] op = "mul" -> "*" [] op = "div" -> "/"

\* binding strength: sum 1, product 2, factor 3
Level(e) ==
  IF e.op \in {"add", "sub"} THEN 1 ELSE IF e.op \in {"mul", "div"} THEN 2 ELSE 3

\* the tokens of e where the grammar expects at least level min; a looser
\* expression is grouped in a nested calc()
RECURSIVE Tokens(_, _)
Tokens(e, min) ==
  LET body ==
        CASE e.op \in {"add", "sub"} ->
               Tokens(e.args[1], 1) \o <<DelimTok(OpDelim(e.op))>> \o Tokens(e.args[2], 2)
          [] e.op \in {"mul", "div"} ->
               Tokens(e.args[1], 2) \o <<DelimTok(OpDelim(e.op))>> \o Tokens(e.args[2], 3)
          [] e.op = "neg" -> <<DelimTok("-")>> \o Tokens(e.args[1], 3)
          [] e.op = "calc" -> <<FunctionTok("calc", Tokens(e.args[1], 1))>>
          [] OTHER -> <<LeafTok(e)>>
  IN IF Level(e) < min THEN <<FunctionTok("calc", body)>> ELSE body

\* the value of the property: calc( e )
StyleTokens(e) == <<FunctionTok("calc", Tokens(e, 1))>>

IsSum(e) == e.op \in {"add", "sub"}

\* scalar * and / distributed over + and -, unary minus distributed over
\* sums, nested calc() replaced by its content
RECURSIVE Expand(_)
RECURSIVE Distribute(_, _, _)

\* op applied to expanded operands l and r, pushed inside a sum operand
Distribute(op, l, r) ==
  IF op = "mul" /\ IsSum(r)
  THEN Bin(r.op, Distribute("mul", l, r.args[1]), Distribute("mul", l, r.args[2]))
  ELSE IF op \in {"mul", "div"} /\ IsSum(l)
  THEN Bin(l.op, Distribute(op, l.args[1], r), Distribute(op, l.args[2], r))
  ELSE IF op = "neg" /\ IsSum(l)
  THEN Bin(l.op, Distribute("neg", l.args[1], r), Distribute("neg", l.args[2], r))
  ELSE IF op = "neg" THEN Neg(l)
  ELSE Bin(op, l, r)

Expand(e) ==
  CASE e.op = "calc" -> Expand(e.args[1])
    [] e.op = "neg" -> Only({Distribute("neg", a, a) : a \in {Expand(e.args[1])}})
    [] e.op \in BinOps ->
         Only({ Distribute(e.op, l, r)
                : l \in {Expand(e.args[1])}, r \in {Expand(e.args[2])} })
    [] OTHER -> e

Some(v) == [some |-> TRUE, value |-> v]

None == [some |-> FALSE, value |-> 0]

\* the Sizing of the unit tests (length.rs 722-735) and one without a viewport size
Sizings ==
  { [viewport |-> [width |-> Some(200), height |-> Some(100),
                   font_size |-> F32FromInt(16), device_pixel_ratio |-> F32FromInt(2)],
     font_size |-> F32FromInt(10)],
    [viewport |-> [width |-> None, height |-> None,
                   font_size |-> F32FromInt(16), device_pixel_ratio |-> F32FromInt(1)],
     font_size |-> F32FromInt(12)] }

Bases == {F32FromInt(0), F32FromInt(200)}

InitCalc ==
  /\ expr \in ExprInputs
  /\ parsed = <<>>
  /\ parsed_expanded = <<>>
  /\ the_sizing = <<>>
  /\ the_basis = F32Zero
  /\ px = F32Zero
  /\ px_expanded = F32Zero
  /\ cpc = "input"
  /\ IdleTree
  /\ IdleBreak
  /\ IdleLength
  /\ IdleArena
  /\ IdleAffine
  /\ IdleBlur
  /\ IdleApply
  /\ IdleLock
  /\ IdleTask
  /\ IdleInline

\* the style parser reads the property as written and as expanded
ParseLength ==
  /\ cpc = "input"
  /\ parsed' = from_css(StyleTokens(expr))
  /\ parsed_expanded' = from_css(StyleTokens(Expand(expr)))
  /\ cpc' = "parsed"
  /\ UNCHANGED <<expr, the_sizing, the_basis, px, px_expanded>>
  /\ UNCHANGED notCalcVars

\* layout resolves both lengths against one sizing and basis
ResolvePx ==
  /\ cpc = "parsed"
  /\ parsed.ok
  /\ \E s \in Sizings, b \in Bases :
       /\ the_sizing' = s
       /\ the_basis' = b
       /\ px' = to_px(parsed.value, s, b)
       /\ px_expanded' = IF parsed_expanded.ok
                         THEN to_px(parsed_expanded.value, s, b)
                         ELSE F32Zero
  /\ cpc' = "resolved"
  /\ UNCHANGED <<expr, parsed, parsed_expanded>>
  /\ UNCHANGED notCalcVars

NextCalc == ParseLength \/ ResolvePx

SpecCalc == InitCalc /\ [][NextCalc]_vars

-----------------------------------------------------------------------------
(* Length::negative, Length::make_computed and Length::to_px on the values *)
(* a style can hold (length.rs).                                           *)

CALC_ZERO_EPSILON == F32Literal(1, 1000000)

\* a test that never takes a value for zero
is_near_zero_Never(value) == FALSE

is_near_zero(value) == F32Le(F32Abs(value), CALC_ZERO_EPSILON)

CalcLinear_neg(self) == [px |-> F32Neg(self.px), percent |-> F32Neg(self.percent)]

\* negation that leaves the percentage coefficient of a calc value alone
negative_KeepsPercent(self) ==
  CASE self.variant = "Auto" -> Length_Auto
    [] self.variant = "Calc" /\ self.handle.kind = "Formula" ->
         Length_Calc(CalcHandle_Formula(
           [CalcFormula_neg(self.handle.formula) EXCEPT !["percent"] = self.handle.formula["percent"]]))
    [] self.variant = "Calc" /\ self.handle.kind = "Linear" ->
         Length_Calc(CalcHandle_Linear(
           [CalcLinear_neg(self.handle.linear) EXCEPT !.percent = self.handle.linear.percent]))
    [] OTHER -> Length(self.variant, F32Neg(self.value))

negative(self) ==
  CASE self.variant = "Auto" -> Length_Auto
    [] self.variant = "Calc" /\ self.handle.kind = "Formula" ->
         Length_Calc(CalcHandle_Formula(CalcFormula_neg(self.handle.formula)))
    [] self.variant = "Calc" /\ self.handle.kind = "Linear" ->
         Length_Calc(CalcHandle_Linear(CalcLinear_neg(self.handle.linear)))
    [] OTHER -> Length(self.variant, F32Neg(self.value))

\* the collapse to Px without the division by the device pixel ratio
make_computed_NoDprUndo(self, s) ==
  IF self.variant = "Em" THEN Length("Px", F32Mul(self.value, s.font_size))
  ELSE IF self.variant = "Calc" /\ self.handle.kind = "Formula"
  THEN Only({ IF is_near_zero(linear.percent) THEN Length("Px", linear.px)
              ELSE IF is_near_zero(linear.px)
              THEN Length("Percentage", F32Mul(linear.percent, F32FromInt(100)))
              ELSE Length_Calc(CalcHandle_Linear(linear))
              : linear \in {CalcFormula_resolve(self.handle.formula, s)} })
  ELSE self

make_computed(self, s) ==
  IF self.variant = "Em" THEN Length("Px", F32Mul(self.value, s.font_size))
  ELSE IF self.variant = "Calc" /\ self.handle.kind = "Formula"
  THEN Only({ IF is_near_zero(linear.percent)
              THEN Length("Px", F32Div(linear.px, s.viewport.device_pixel_ratio))
              ELSE IF is_near_zero(linear.px)
              THEN Length("Percentage", F32Mul(linear.percent, F32FromInt(100)))
              ELSE Length_Calc(CalcHandle_Linear(linear))
              : linear \in {CalcFormula_resolve(self.handle.formula, s)} })
  ELSE self

MaxLengthOps == 2

Auto == [op |-> "auto", value |-> 0, unit |-> "", args |-> <<>>]

\* a percentage written with one decimal: n / 10 %
Permille(n) == [op |-> "permille", value |-> n, unit |-> "%", args |-> <<>>]

DimensionUnits == {"px", "em", "rem", "vw", "vh", "cm", "mm", "in", "q", "pt", "pc"}

\* units whose pixel value scales with the device pixel ratio
AbsoluteUnits == {"px", "rem", "cm", "mm", "in", "q", "pt", "pc"}

PlainLengths ==
  {Dim(v, u) : v \in {0, 1, 12}, u \in DimensionUnits}
    \cup {Pct(v) : v \in {0, 50, 100}} \cup {Permille(7)} \cup {Auto}

\* the second operand of the sums written in a calc()
SumOperands == {Dim(12, "px"), Dim(0, "px"), Pct(50), Dim(1, "em"), Dim(1, "rem")}

CalcLengths ==
  {Calc(e) : e \in PlainLengths \ {Auto}}
    \cup {Calc(Bin(op, l, r)) : op \in {"add", "sub"}, l \in PlainLengths \ {Auto},
                                r \in SumOperands}

WrittenLengths == PlainLengths \cup CalcLengths

\* the Sizings above and one with a fractional device pixel ratio
LengthSizings ==
  Sizings \cup
  { [viewport |-> [width |-> Some(200), height |-> Some(100),
                   font_size |-> F32FromInt(16),
                   device_pixel_ratio |-> F32Literal(275, 100)],
     font_size |-> F32FromInt(13)] }

LengthBases == Bases \cup {F32FromInt(333)}

InitLength ==
  /\ written \in WrittenLengths
  /\ lv = <<>>
  /\ twin = <<>>
  /\ lsizing = <<>>
  /\ lbasis = F32Zero
  /\ lv_prev = <<>>
  /\ lpx_prev = F32Zero
  /\ lpx = F32Zero
  /\ lpx_twin = F32Zero
  /\ nops = 0
  /\ lpc = "written"
  /\ IdleTree
  /\ IdleBreak
  /\ IdleCalc
  /\ IdleArena
  /\ IdleAffine
  /\ IdleBlur
  /\ IdleApply
  /\ IdleLock
  /\ IdleTask
  /\ IdleInline

\* the style parser reads the length as written and inside a calc(); the
\* node's sizing and basis become known and both values are resolved
ParseStyle ==
  /\ lpc = "written"
  /\ \E s \in LengthSizings, b \in LengthBases :
       \E p \in {from_css(Tokens(written, 3))}, t \in {from_css(StyleTokens(written))} :
         /\ p.ok
         /\ lv' = p.value
         /\ twin' = t
         /\ lsizing' = s
         /\ lbasis' = b
         /\ lpx' = to_px(p.value, s, b)
         /\ lpx_twin' = IF t.ok THEN to_px(t.value, s, b) ELSE F32Zero
  /\ lpc' = "parsed"
  /\ UNCHANGED <<written, lv_prev, lpx_prev, nops>>
  /\ UNCHANGED notLengthVars

\* -length, resolved before and after
Negative ==
  /\ lpc \in {"parsed", "negative", "make_computed"}
  /\ nops < MaxLengthOps
  /\ \E n \in {negative(lv)} :
       /\ lv' = n
       /\ lpx' = to_px(n, lsizing, lbasis)
  /\ lv_prev' = lv
  /\ lpx_prev' = lpx
  /\ nops' = nops + 1
  /\ lpc' = "negative"
  /\ UNCHANGED <<written, twin, lsizing, lbasis, lpx_twin>>
  /\ UNCHANGED notLengthVars

\* length.make_computed(sizing), resolved before and after
MakeComputed ==
  /\ lpc \in {"parsed", "negative", "make_computed"}
  /\ nops < MaxLengthOps
  /\ \E c \in {make_computed(lv, lsizing)} :
       /\ lv' = c
       /\ lpx' = to_px(c, lsizing, lbasis)
  /\ lv_prev' = lv
  /\ lpx_prev' = lpx
  /\ nops' = nops + 1
  /\ lpc' = "make_computed"
  /\ UNCHANGED <<written, twin, lsizing, lbasis, lpx_twin>>
  /\ UNCHANGED notLengthVars

NextLength == ParseStyle \/ Negative \/ MakeComputed

SpecLength == InitLength /\ [][NextLength]_vars

-----------------------------------------------------------------------------
(* CalcArena: resolved linear calc values behind pointer-encoded handles   *)
(* (length.rs).                                                            *)

\* width in bits of usize and of a pointer, scaled down
PointerBits == 6

\* size_of::<CalcLinear>(): two f32 fields
CalcLinearBytes == 8

\* a Vec never holds more than isize::MAX bytes
MaxVecLen == (2^(PointerBits - 1) - 1) \div CalcLinearBytes

MaxRegistrations == 3

Arenas == {"A", "B"}

\* resolved linear values handed to register_linear
Linears ==
  { [px |-> F32FromInt(10), percent |-> F32Literal(5, 10)],
    [px |-> F32FromInt(-12), percent |-> F32FromInt(1)] }

\* (id << 3) as a pointer
encode_linear_id(id) == (id * 8) % 2^PointerBits

\* (raw != 0).then_some(raw >> 3)
decode_linear_id(ptr) == IF ptr # 0 THEN Some(ptr \div 8) ELSE None

\* linear_values.push(linear); encode_linear_id(linear_values.len())
register_linear(self, linear) ==
  [values |-> Append(self, linear), handle |-> encode_linear_id(Len(self) + 1)]

\* slice::get
VecGet(values, index) ==
  IF index < Len(values) THEN Some(values[index + 1]) ELSE None

\* the entry resolve_calc_value reads: decode_linear_id(val), then
\* linear_values.get(id - 1); id - 1 is a usize (id is never 0 for a handle
\* register_linear returned)
found_linear(self, val) ==
  Only({ IF id.some THEN VecGet(self, (id.value - 1) % 2^PointerBits) ELSE None
         : id \in {decode_linear_id(val)} })

\* resolve_calc_value that treats the decoded id as a zero-based index
resolve_calc_value_ZeroBased(self, val, basis) ==
  Only({ IF ~id.some THEN F32Zero
         ELSE Only({ IF l.some THEN CalcLinear_resolve(l.value, basis) ELSE F32Zero
                     : l \in {VecGet(self, id.value)} })
         : id \in {decode_linear_id(val)} })

resolve_calc_value(self, val, basis) ==
  Only({ IF l.some THEN CalcLinear_resolve(l.value, basis) ELSE F32Zero
         : l \in {found_linear(self, val)} })

\* the null pointer, which no register_linear call returned
NullHandle == [arena |-> "none", handle |-> 0, linear |-> CalcLinear_default]

InitArena ==
  /\ linear_values = [a \in Arenas |-> <<>>]
  /\ returned = {}
  /\ resolved = <<>>
  /\ apc = "new"
  /\ IdleTree
  /\ IdleBreak
  /\ IdleCalc
  /\ IdleLength
  /\ IdleAffine
  /\ IdleBlur
  /\ IdleApply
  /\ IdleLock
  /\ IdleTask
  /\ IdleInline

\* arena.register_linear(linear)
RegisterLinear ==
  /\ \E a \in Arenas, linear \in Linears :
       /\ Len(linear_values[a]) < MaxRegistrations
       /\ Len(linear_values[a]) < MaxVecLen
       /\ \E r \in {register_linear(linear_values[a], linear)} :
            /\ linear_values' = [linear_values EXCEPT ![a] = r.values]
            /\ returned' = returned \cup
                 {[arena |-> a, handle |-> r.handle, linear |-> linear]}
  /\ resolved' = <<>>
  /\ apc' = "register_linear"
  /\ UNCHANGED notArenaVars

\* arena.resolve_calc_value(val, basis) with a handle some register_linear
\* call returned, on any arena, or with the null pointer
ResolveCalcValue ==
  /\ \E a \in Arenas, h \in returned \cup {NullHandle}, basis \in Bases :
       resolved' = [arena |-> a, val |-> h.handle, owner |-> h.arena,
                    linear |-> h.linear, basis |-> basis,
                    hit |-> found_linear(linear_values[a], h.handle).some,
                    value |-> resolve_calc_value(linear_values[a], h.handle, basis)]
  /\ apc' = "resolve_calc_value"
  /\ UNCHANGED <<linear_values, returned>>
  /\ UNCHANGED notArenaVars

NextArena == RegisterLinear \/ ResolveCalcValue

SpecArena == InitArena /\ [][NextArena]_vars

-----------------------------------------------------------------------------
(* Affine matrices and transform lists (transform.rs).                     *)

MaxTransforms == 2

Affine(a, b, c, d, x, y) == [a |-> a, b |-> b, c |-> c, d |-> d, x |-> x, y |-> y]

Affine_identity ==
  Affine(F32FromInt(1), F32Zero, F32Zero, F32FromInt(1), F32Zero, F32Zero)

Affine_translation(x, y) ==
  Affine(F32FromInt(1), F32Zero, F32Zero, F32FromInt(1), x, y)

Affine_scale(x, y) == Affine(x, F32Zero, F32Zero, y, F32Zero, F32Zero)

\* angle carries the f32 results of to_radians().sin_cos() and .tan()
Affine_rotation(angle) ==
  Affine(angle.cos, angle.sin, F32Neg(angle.sin), angle.cos, F32Zero, F32Zero)

Affine_skew(x, y) ==
  Affine(F32FromInt(1), y.tan, x.tan, F32FromInt(1), F32Zero, F32Zero)

\* impl Mul for Affine
Affine_mul(self, rhs) ==
  [a |-> F32Add(F32Mul(self.a, rhs.a), F32Mul(self.b, rhs.c)),
   b |-> F32Add(F32Mul(self.a, rhs.b), F32Mul(self.b, rhs.d)),
   c |-> F32Add(F32Mul(self.c, rhs.a), F32Mul(self.d, rhs.c)),
   d |-> F32Add(F32Mul(self.c, rhs.b), F32Mul(self.d, rhs.d)),
   x |-> F32Add(F32Add(F32Mul(self.x, rhs.a), F32Mul(self.y, rhs.c)), rhs.x),
   y |-> F32Add(F32Add(F32Mul(self.x, rhs.b), F32Mul(self.y, rhs.d)), rhs.y)]

\* impl Mul<Affine> for Point<f32>
Point_mul(self, m) ==
  [x |-> F32Add(F32Add(F32Mul(self.x, m.a), F32Mul(self.y, m.c)), m.x),
   y |-> F32Add(F32Add(F32Mul(self.x, m.b), F32Mul(self.y, m.d)), m.y)]

determinant(self) == F32Sub(F32Mul(self.a, self.d), F32Mul(self.b, self.c))

\* f32::EPSILON
F32_EPSILON == <<1, -23>>

F32Lt(x, y) == ~F32Le(y, x)

\* invert whose translation is only negated
invert_NegatedTranslation(self) ==
  Only({ IF F32Lt(F32Abs(det), F32_EPSILON) THEN None
         ELSE Some([a |-> F32Div(self.d, det),
                    b |-> F32Div(self.b, F32Neg(det)),
                    c |-> F32Div(self.c, F32Neg(det)),
                    d |-> F32Div(self.a, det),
                    x |-> F32Neg(self.x),
                    y |-> F32Neg(self.y)])
         : det \in {determinant(self)} })

invert(self) ==
  Only({ IF F32Lt(F32Abs(det), F32_EPSILON) THEN None
         ELSE Some([a |-> F32Div(self.d, det),
                    b |-> F32Div(self.b, F32Neg(det)),
                    c |-> F32Div(self.c, F32Neg(det)),
                    d |-> F32Div(self.a, det),
                    x |-> F32Div(F32Sub(F32Mul(self.d, self.x), F32Mul(self.c, self.y)),
                                 F32Neg(det)),
                    y |-> F32Div(F32Sub(F32Mul(self.b, self.x), F32Mul(self.a, self.y)),
                                 det)])
         : det \in {determinant(self)} })

\* enum Transform; a translation carries its lengths resolved to px
Translate(x, y) == [kind |-> "Translate", x |-> x, y |-> y]

Scale(x, y) == [kind |-> "Scale", x |-> x, y |-> y]

Rotate(angle) == [kind |-> "Rotate", x |-> angle, y |-> angle]

Skew(x, y) == [kind |-> "Skew", x |-> x, y |-> y]

Matrix(affine) == [kind |-> "Matrix", x |-> affine, y |-> affine]

\* the matrix one arm of the match in to_affine multiplies by
TransformAffine(transform) ==
  CASE transform.kind = "Translate" -> Affine_translation(transform.x, transform.y)
    [] transform.kind = "Scale" -> Affine_scale(transform.x, transform.y)
    [] transform.kind = "Rotate" -> Affine_rotation(transform.x)
    [] transform.kind = "Skew" -> Affine_skew(transform.x, transform.y)
    [] transform.kind = "Matrix" -> transform.x

\* the loop of to_affine taken in declaration order
RECURSIVE to_affine_loop_Forward(_, _, _)
to_affine_loop_Forward(self, i, m) ==
  IF i > Len(self) THEN m
  ELSE Only({ to_affine_loop_Forward(self, i + 1, next)
              : next \in {Affine_mul(m, TransformAffine(self[i]))} })

to_affine_DeclarationOrder(self) == to_affine_loop_Forward(self, 1, Affine_identity)

\* for transform in self.0.iter().rev() { instance *= ... }
RECURSIVE to_affine_loop(_, _, _)
to_affine_loop(self, i, m) ==
  IF i = 0 THEN m
  ELSE Only({ to_affine_loop(self, i - 1, next)
              : next \in {Affine_mul(m, TransformAffine(self[i]))} })

to_affine(self) == to_affine_loop(self, Len(self), Affine_identity)

\* an Angle with the f32 values of its sine, cosine and tangent
Angle(degrees, sin, cos, tan) ==
  [degrees |-> degrees, sin |-> sin, cos |-> cos, tan |-> tan]

Degrees0 == Angle(0, F32Zero, F32FromInt(1), F32Zero)

Degrees30 == Angle(30, <<1, -1>>, <<14529495, -24>>, <<4843165, -23>>)

Degrees45 == Angle(45, <<11863283, -24>>, <<11863283, -24>>, F32FromInt(1))

Degrees180 == Angle(180, <<-6151831, -46>>, F32FromInt(-1), <<6151831, -46>>)

Degrees359 == Angle(359, <<-4684899, -28>>, <<16774661, -24>>, <<-4685613, -28>>)

\* matrix(1, 1, 1, 1.000001, 0, 0): its determinant is just above f32::EPSILON
NearSingular ==
  Affine(F32FromInt(1), F32FromInt(1), F32FromInt(1), <<1048577, -20>>, F32Zero, F32Zero)

TransformInputs ==
  { Translate(F32FromInt(10), F32FromInt(20)), Translate(F32FromInt(-5), F32Zero),
    Scale(F32FromInt(2), F32FromInt(2)), Scale(F32FromInt(3), F32Literal(1, 2)),
    Scale(F32Zero, F32FromInt(1)),
    Rotate(Degrees0), Rotate(Degrees45), Rotate(Degrees180), Rotate(Degrees359),
    Skew(Degrees30, Degrees0),
    Matrix(Affine(F32FromInt(3), F32FromInt(1), F32FromInt(1), F32FromInt(2),
                  F32FromInt(5), F32FromInt(7))),
    Matrix(NearSingular) }

TransformLists ==
  UNION {[1..n -> TransformInputs] : n \in 0..MaxTransforms}

Point(x, y) == [x |-> x, y |-> y]

Points ==
  { Point(F32Zero, F32Zero), Point(F32FromInt(1), F32FromInt(2)),
    Point(F32FromInt(100), F32FromInt(-50)) }

\* the point through each transform of the list in turn, last declared first
RECURSIVE ApplyInTurn(_, _, _)
ApplyInTurn(self, i, p) ==
  IF i = 0 THEN p
  ELSE Only({ ApplyInTurn(self, i - 1, next)
              : next \in {Point_mul(p, TransformAffine(self[i]))} })

InitAffine ==
  /\ transforms \in TransformLists
  /\ instance = Affine_identity
  /\ inverse = None
  /\ forward = Affine_identity
  /\ backward = Affine_identity
  /\ point = Point(F32Zero, F32Zero)
  /\ folded = Point(F32Zero, F32Zero)
  /\ direct = Point(F32Zero, F32Zero)
  /\ fpc = "declared"
  /\ IdleTree
  /\ IdleBreak
  /\ IdleCalc
  /\ IdleLength
  /\ IdleArena
  /\ IdleBlur
  /\ IdleApply
  /\ IdleLock
  /\ IdleTask
  /\ IdleInline

\* transforms.to_affine(context, border_box)
ToAffine ==
  /\ fpc = "declared"
  /\ instance' = to_affine(transforms)
  /\ fpc' = "composed"
  /\ UNCHANGED <<transforms, inverse, forward, backward, point, folded, direct>>
  /\ UNCHANGED notAffineVars

\* instance.invert(), and the inverse composed with the matrix on both sides
Invert ==
  /\ fpc = "composed"
  /\ \E r \in {invert(instance)} :
       /\ inverse' = r
       /\ forward' = IF r.some THEN Affine_mul(instance, r.value) ELSE forward
       /\ backward' = IF r.some THEN Affine_mul(r.value, instance) ELSE backward
  /\ fpc' = "inverted"
  /\ UNCHANGED <<transforms, instance, point, folded, direct>>
  /\ UNCHANGED notAffineVars

\* point * matrix, with the composed matrix and with each transform in turn
ApplyToPoint ==
  /\ fpc = "composed"
  /\ \E p \in Points :
       /\ point' = p
       /\ folded' = ApplyInTurn(transforms, Len(transforms), p)
       /\ direct' = Point_mul(p, instance)
  /\ fpc' = "applied"
  /\ UNCHANGED <<transforms, instance, inverse, forward, backward>>
  /\ UNCHANGED notAffineVars

NextAffine == ToAffine \/ Invert \/ ApplyToPoint

SpecAffine == InitAffine /\ [][NextAffine]_vars

-----------------------------------------------------------------------------
(* Box blur passes and apply_blur (blur.rs).                               *)

MaxWidth == 5

MaxHeight == 5

MaxRadius == 11

PIXEL_STRIDE == 4

\* fn compute_mul_shg: shg = 23, mul = round(2^23 / d)
compute_mul_shg(d) == [mul |-> (2^24 + d) \div (2 * d), shg |-> 23]

BlurPassParams(width, height, radius, stride, ms) ==
  [width |-> width, height |-> height, radius |-> radius, stride |-> stride,
   mul_val |-> ms.mul, shg |-> ms.shg]

usize_min(a, b) == IF a < b THEN a ELSE b

usize_max(a, b) == IF a > b THEN a ELSE b

saturating_sub(a, b) == IF a > b THEN a - b ELSE 0

\* ((sum * mul) >> shg) as u8
OutputByte(sum, mul, shg) == ((sum * mul) \div 2^shg) % 256

\* (r + 1).min(n)
left_end(r, n) == usize_min(r + 1, n)

\* n.saturating_sub(r + 1).max(left_end)
middle_end(r, n) == usize_max(saturating_sub(n, r + 1), left_end(r, n))

\* position of the pixel added to the sum after the output at x, in the
\* three loops of a pass
entering(x, r, n) ==
  IF x < left_end(r, n) THEN usize_min(x + r + 1, n - 1)
  ELSE IF x < middle_end(r, n) THEN x + r + 1
  ELSE n - 1

\* a pass that always subtracts the first pixel
leaving_AlwaysFirst(x, r, n) == 0

\* position of the pixel subtracted from the sum after the output at x
leaving(x, r, n) == IF x < left_end(r, n) THEN 0 ELSE x - r

\* the sum before the first output: the first pixel r + 1 times, then the
\* pixels at min(dx, n - 1) for dx in 1..=r
RECURSIVE TrailingEdge(_, _, _, _)
TrailingEdge(line, dx, r, sum) ==
  IF dx > r THEN sum
  ELSE TrailingEdge(line, dx + 1, r, sum + line[usize_min(dx, Len(line) - 1) + 1])

\* the outputs of one row or column, given its pixels of one channel
RECURSIVE Slide(_, _, _, _, _, _)
Slide(line, x, sum, r, ms, out) ==
  IF x >= Len(line) THEN out
  ELSE Only({ Slide(line, x + 1, next, r, ms, Append(out, OutputByte(sum, ms.mul, ms.shg)))
              : next \in {sum + line[entering(x, r, Len(line)) + 1]
                               - line[leaving(x, r, Len(line)) + 1]} })

SlidingWindow(line, r, ms) ==
  Slide(line, 0, TrailingEdge(line, 1, r, line[1] * (r + 1)), r, ms, <<>>)

\* fn box_blur_h::<STRIDE>(src, dst, params): the bytes written to dst
box_blur_h(STRIDE, source, params) ==
  Only({ [i \in 1..(params.height * params.stride) |->
            rows[(i - 1) \div params.stride][(i - 1) % STRIDE]
                [((i - 1) % params.stride) \div STRIDE + 1]]
         : rows \in {[y \in 0..(params.height - 1) |->
                       [c \in 0..(STRIDE - 1) |->
                          SlidingWindow(
                            [k \in 1..params.width |->
                               source[y * params.stride + (k - 1) * STRIDE + c + 1]],
                            params.radius, [mul |-> params.mul_val, shg |-> params.shg])]]} })

\* fn box_blur_v(src, dst, params, sums): the bytes written to dst
box_blur_v(source, params) ==
  Only({ [i \in 1..(params.height * params.stride) |->
            columns[(i - 1) % params.stride][(i - 1) \div params.stride + 1]]
         : columns \in {[x \in 0..(params.stride - 1) |->
                          SlidingWindow(
                            [k \in 1..params.height |->
                               source[(k - 1) * params.stride + x + 1]],
                            params.radius, [mul |-> params.mul_val, shg |-> params.shg])]} })

\* a trailing edge that is not clamped to the line: dx instead of dx.min(n - 1)
touched_Unclamped(r, n) ==
  {0} \cup {dx : dx \in 1..r}
      \cup UNION {{x, entering(x, r, n), leaving(x, r, n)} : x \in 0..(n - 1)}

\* the positions along a line of n pixels that a pass hands to
\* get_unchecked / get_unchecked_mut: the first pixel, the trailing edge
\* dx.min(n - 1), and per output x the output, entering and leaving pixels
touched(r, n) ==
  {0} \cup {usize_min(dx, n - 1) : dx \in 1..r}
      \cup UNION {{x, entering(x, r, n), leaving(x, r, n)} : x \in 0..(n - 1)}

\* the usize subtractions of a pass over a line of n pixels: n - 1, and
\* x - r in the middle and right loops
differences(r, n) == {n - 1} \cup {x - r : x \in left_end(r, n)..(n - 1)}

\* box_blur_h: line_offset + position * STRIDE + c for every row y
box_blur_h_offsets(STRIDE, params) ==
  {y * params.stride + pos * STRIDE + c :
     y \in 0..(params.height - 1), pos \in touched(params.radius, params.width),
     c \in 0..(STRIDE - 1)}

\* box_blur_v: position * stride + x for every column x
box_blur_v_offsets(params) ==
  {pos * params.stride + x :
     pos \in touched(params.radius, params.height), x \in 0..(params.stride - 1)}

\* the lowest value the running sum of a line takes after sum += entering;
\* sum -= leaving
RECURSIVE LowestSum(_, _, _, _, _)
LowestSum(line, x, sum, r, low) ==
  IF x >= Len(line) THEN low
  ELSE Only({ LowestSum(line, x + 1, next, r, usize_min(low, next))
              : next \in {sum + line[entering(x, r, Len(line)) + 1]
                               - line[leaving(x, r, Len(line)) + 1]} })

\* for _ in 0..3 { box_blur_h(data, temp); box_blur_v(temp, data) }
RECURSIVE ThreePasses(_, _, _, _)
ThreePasses(STRIDE, data, params, left) ==
  IF left = 0 THEN data
  ELSE Only({ ThreePasses(STRIDE, after, params, left - 1)
              : after \in {box_blur_v(box_blur_h(STRIDE, data, params), params)} })

\* enum BlurType; twice to_sigma(css_radius), for a radius in whole pixels
TwiceSigma(blur_type, css_radius) ==
  IF blur_type = "Filter" THEN 2 * css_radius ELSE css_radius

\* (((4.0 * sigma * sigma + 1.0).sqrt() - 1.0) * 0.5).round().max(1.0), for
\* sigma = q / 2: round((sqrt(q*q + 1) - 1) / 2) = floor(sqrt((q*q + 1) / 4))
box_radius(q) ==
  usize_max(1, CHOOSE k \in 0..q : k * k <= (q * q + 1) \div 4
                                     /\ (q * q + 1) \div 4 < (k + 1) * (k + 1))

\* fn apply_blur on BlurFormat::Alpha { data, width, height }: data afterwards
apply_blur(data, width, height, css_radius, blur_type) ==
  IF TwiceSigma(blur_type, css_radius) <= 1 THEN data
  ELSE IF width = 0 \/ height = 0 THEN data
  ELSE Only({ ThreePasses(1, data,
                BlurPassParams(width, height, r, width, compute_mul_shg(2 * r + 1)), 3)
              : r \in {box_radius(TwiceSigma(blur_type, css_radius))} })

\* buffers of n bytes: uniform, ramps, and a single bright byte
Uniform(n, v) == [i \in 1..n |-> v]

Ramp(n, k) == [i \in 1..n |-> (k * i) % 256]

Impulse(n, at) == [i \in 1..n |-> IF i = at THEN 255 ELSE 0]

Buffers(n) ==
  {Uniform(n, v) : v \in {0, 1, 255}} \cup {Ramp(n, k) : k \in {37, 101}}
    \cup {Impulse(n, at) : at \in {1, n}}

BlurTypes == {"Filter", "Shadow"}

InitBlur ==
  /\ bwidth \in 0..MaxWidth
  /\ bheight \in 0..MaxHeight
  /\ channels \in {1, PIXEL_STRIDE}
  /\ src \in Buffers(bwidth * bheight * channels)
  /\ request = <<>>
  /\ bradius = 0
  /\ dst = <<>>
  /\ kpc = "buffer"
  /\ IdleTree
  /\ IdleBreak
  /\ IdleCalc
  /\ IdleLength
  /\ IdleArena
  /\ IdleAffine
  /\ IdleApply
  /\ IdleLock
  /\ IdleTask
  /\ IdleInline

\* box_blur_h::<STRIDE>(src, dst, params)
BoxBlurH ==
  /\ kpc = "buffer"
  /\ bwidth >= 1
  /\ bheight >= 1
  /\ \E r \in 1..MaxRadius :
       /\ bradius' = r
       /\ dst' = box_blur_h(channels, src,
                    BlurPassParams(bwidth, bheight, r, bwidth * channels,
                                   compute_mul_shg(2 * r + 1)))
  /\ kpc' = "box_blur_h"
  /\ UNCHANGED <<bwidth, bheight, channels, src, request>>
  /\ UNCHANGED notBlurVars

\* box_blur_v(src, dst, params, sums)
BoxBlurV ==
  /\ kpc = "buffer"
  /\ bwidth >= 1
  /\ bheight >= 1
  /\ \E r \in 1..MaxRadius :
       /\ bradius' = r
       /\ dst' = box_blur_v(src,
                    BlurPassParams(bwidth, bheight, r, bwidth * channels,
                                   compute_mul_shg(2 * r + 1)))
  /\ kpc' = "box_blur_v"
  /\ UNCHANGED <<bwidth, bheight, channels, src, request>>
  /\ UNCHANGED notBlurVars

\* apply_blur(BlurFormat::Alpha { data, width, height }, radius, blur_type, pool)
ApplyBlur ==
  /\ kpc = "buffer"
  /\ channels = 1
  /\ \E blur_type \in BlurTypes, css_radius \in 0..(2 * MaxRadius) :
       /\ box_radius(TwiceSigma(blur_type, css_radius)) <= MaxRadius
       /\ request' = [blur_type |-> blur_type, radius |-> css_radius]
       /\ bradius' = box_radius(TwiceSigma(blur_type, css_radius))
       /\ dst' = apply_blur(src, bwidth, bheight, css_radius, blur_type)
  /\ kpc' = "apply_blur"
  /\ UNCHANGED <<bwidth, bheight, channels, src>>
  /\ UNCHANGED notBlurVars

NextBlur == BoxBlurH \/ BoxBlurV \/ ApplyBlur

SpecBlur == InitBlur /\ [][NextBlur]_vars

-----------------------------------------------------------------------------
(* apply_blur statement by statement, with the buffer pool (blur.rs).      *)

MaxImgWidth == 2

MaxImgHeight == 2

MaxHalfRadius == 6

\* a to_sigma that does not halve the radius of a shadow
to_sigma_ShadowUnhalved(blur_type, half_radius) == 2 * half_radius

\* fn BlurType::to_sigma, in quarter pixels, of a radius in half pixels:
\* Filter => radius, Shadow => radius * 0.5
to_sigma(blur_type, half_radius) ==
  IF blur_type = "Filter" THEN 2 * half_radius ELSE half_radius

\* sigma <= 0.5, for sigma in quarter pixels
SigmaTooSmall(sigma) == sigma <= 2

\* (((4.0 * sigma * sigma + 1.0).sqrt() - 1.0) * 0.5).round().max(1.0) as u32
\* for sigma = s / 4: round((sqrt(s*s/4 + 1) - 1) / 2) = floor(sqrt((s*s + 4) / 16))
box_radius_of(s) ==
  usize_max(1, CHOOSE k \in 0..s : k * k <= (s * s + 4) \div 16
                                     /\ (s * s + 4) \div 16 < (k + 1) * (k + 1))

\* premultiply_alpha on every pixel of an RGBA buffer: each colour byte is
\* scaled by the alpha byte of its pixel
premultiply_alpha(data) ==
  [i \in 1..Len(data) |->
     IF i % PIXEL_STRIDE = 0 THEN data[i]
     ELSE (data[i] * data[((i - 1) \div PIXEL_STRIDE) * PIXEL_STRIDE + PIXEL_STRIDE] + 127)
            \div 255]

\* unpremultiply_alpha on every pixel: each colour byte is divided by the
\* alpha of its pixel; a transparent pixel stays as it is
unpremultiply_alpha(data) ==
  [i \in 1..Len(data) |->
     IF i % PIXEL_STRIDE = 0 THEN data[i]
     ELSE Only({ IF a = 0 THEN data[i]
                 ELSE usize_min(255, (data[i] * 255 + a \div 2) \div a)
                 : a \in {data[((i - 1) \div PIXEL_STRIDE) * PIXEL_STRIDE + PIXEL_STRIDE]} })]

\* a loop that leaves after two iterations
next_statement_TwoIterations(format, op, done) ==
  CASE op = "call" -> IF format = "Rgba" THEN "premultiply" ELSE "acquire"
    [] op = "premultiply" -> "acquire"
    [] op = "acquire" -> "box_blur_h"
    [] op = "box_blur_h" -> "box_blur_v"
    [] op = "box_blur_v" -> IF done < 2 THEN "box_blur_h" ELSE "release"
    [] op = "release" -> IF format = "Rgba" THEN "unpremultiply" ELSE "return"
    [] op = "unpremultiply" -> "return"

\* the statement apply_blur runs after `op`, with `done` iterations of
\* for _ in 0..3 completed
next_statement(format, op, done) ==
  CASE op = "call" -> IF format = "Rgba" THEN "premultiply" ELSE "acquire"
    [] op = "premultiply" -> "acquire"
    [] op = "acquire" -> "box_blur_h"
    [] op = "box_blur_h" -> "box_blur_v"
    [] op = "box_blur_v" -> IF done < 3 THEN "box_blur_h" ELSE "release"
    [] op = "release" -> IF format = "Rgba" THEN "unpremultiply" ELSE "return"
    [] op = "unpremultiply" -> "return"

\* stride: width * PIXEL_STRIDE for Rgba, width for Alpha
StrideOf(format, width) == IF format = "Rgba" THEN width * PIXEL_STRIDE ELSE width

\* pass_params of the running call
pass_params ==
  Only({ BlurPassParams(img_width, img_height, r, StrideOf(img_format, img_width),
                        compute_mul_shg(2 * r + 1))
         : r \in {box_radius_of(to_sigma(ask.blur_type, ask.radius))} })

Step(op, reads, writes) == [op |-> op, reads |-> reads, writes |-> writes]

InitApply ==
  /\ img_format \in {"Rgba", "Alpha"}
  /\ img_width \in 0..MaxImgWidth
  /\ img_height \in 0..MaxImgHeight
  /\ img_data \in
       IF img_format = "Rgba" THEN Buffers(img_width * img_height * PIXEL_STRIDE)
       ELSE Buffers(img_width * img_height)
              \cup (IF img_width * img_height >= 1
                    THEN Buffers(img_width * img_height - 1) ELSE {})
  /\ img_before = <<>>
  /\ temp_data = <<>>
  /\ acquisitions = 0
  /\ history = <<>>
  /\ outcome = "none"
  /\ iteration = 0
  /\ ask = <<>>
  /\ ppc = "idle"
  /\ IdleTree
  /\ IdleBreak
  /\ IdleCalc
  /\ IdleLength
  /\ IdleArena
  /\ IdleAffine
  /\ IdleBlur
  /\ IdleLock
  /\ IdleTask
  /\ IdleInline

\* apply_blur up to the two early returns (lines 76-86)
ApplyBlurCall ==
  /\ ppc = "idle"
  /\ \E blur_type \in BlurTypes, half_radius \in (-2)..MaxHalfRadius :
       /\ ask' = [blur_type |-> blur_type, radius |-> half_radius]
       /\ IF SigmaTooSmall(to_sigma(blur_type, half_radius))
            \/ img_width = 0 \/ img_height = 0
          THEN outcome' = "Ok" /\ ppc' = "returned"
          ELSE outcome' = "none" /\ ppc' = next_statement(img_format, "call", 0)
  /\ img_before' = img_data
  /\ UNCHANGED <<img_format, img_width, img_height, img_data, temp_data,
                 acquisitions, history, iteration>>
  /\ UNCHANGED notApplyVars

\* for pixel in image.pixels_mut() { premultiply_alpha(pixel) }
Premultiply ==
  /\ ppc = "premultiply"
  /\ img_data' = premultiply_alpha(img_data)
  /\ history' = Append(history, Step("premultiply", "image", "image"))
  /\ ppc' = next_statement(img_format, "premultiply", iteration)
  /\ UNCHANGED <<img_format, img_width, img_height, img_before, temp_data,
                 acquisitions, outcome, iteration, ask>>
  /\ UNCHANGED notApplyVars

\* pool.acquire_image(width, height)? for Rgba, which may fail;
\* pool.acquire((width * height) as usize) for Alpha.  The buffer handed out
\* may hold the bytes of an earlier use.
Acquire ==
  /\ ppc = "acquire"
  /\ \/ /\ \E stale \in {0, 255} :
             temp_data' = Uniform(img_height * StrideOf(img_format, img_width), stale)
        /\ acquisitions' = acquisitions + 1
        /\ history' = Append(history, Step("acquire", "pool", "temp"))
        /\ ppc' = next_statement(img_format, "acquire", iteration)
        /\ UNCHANGED outcome
     \/ /\ img_format = "Rgba"
        /\ outcome' = "Err"
        /\ ppc' = "returned"
        /\ UNCHANGED <<temp_data, acquisitions, history>>
  /\ UNCHANGED <<img_format, img_width, img_height, img_data, img_before,
                 iteration, ask>>
  /\ UNCHANGED notApplyVars

\* box_blur_h::<STRIDE>(img_data, temp_data, pass_params), with its two
\* length assertions
PassH ==
  /\ ppc = "box_blur_h"
  /\ IF Len(img_data) >= img_height * pass_params.stride
        /\ Len(temp_data) >= img_height * pass_params.stride
     THEN /\ temp_data' = box_blur_h(IF img_format = "Rgba" THEN PIXEL_STRIDE ELSE 1,
                                     img_data, pass_params)
          /\ history' = Append(history, Step("box_blur_h", "image", "temp"))
          /\ ppc' = next_statement(img_format, "box_blur_h", iteration)
          /\ UNCHANGED outcome
     ELSE /\ outcome' = "panic"
          /\ ppc' = "returned"
          /\ UNCHANGED <<temp_data, history>>
  /\ UNCHANGED <<img_format, img_width, img_height, img_data, img_before,
                 acquisitions, iteration, ask>>
  /\ UNCHANGED notApplyVars

\* box_blur_v(temp_data, img_data, pass_params, &mut col_sums)
PassV ==
  /\ ppc = "box_blur_v"
  /\ img_data' = box_blur_v(temp_data, pass_params)
  /\ history' = Append(history, Step("box_blur_v", "temp", "image"))
  /\ iteration' = iteration + 1
  /\ ppc' = next_statement(img_format, "box_blur_v", iteration + 1)
  /\ UNCHANGED <<img_format, img_width, img_height, img_before, temp_data,
                 acquisitions, outcome, ask>>
  /\ UNCHANGED notApplyVars

\* pool.release_image(temp_image) / pool.release(temp_image)
Release ==
  /\ ppc = "release"
  /\ temp_data' = <<>>
  /\ history' = Append(history, Step("release", "temp", "pool"))
  /\ ppc' = next_statement(img_format, "release", iteration)
  /\ UNCHANGED <<img_format, img_width, img_height, img_data, img_before,
                 acquisitions, outcome, iteration, ask>>
  /\ UNCHANGED notApplyVars

\* for pixel in image.pixels_mut() { unpremultiply_alpha(pixel) }
Unpremultiply ==
  /\ ppc = "unpremultiply"
  /\ img_data' = unpremultiply_alpha(img_data)
  /\ history' = Append(history, Step("unpremultiply", "image", "image"))
  /\ ppc' = next_statement(img_format, "unpremultiply", iteration)
  /\ UNCHANGED <<img_format, img_width, img_height, img_before, temp_data,
                 acquisitions, outcome, iteration, ask>>
  /\ UNCHANGED notApplyVars

\* Ok(())
ReturnOk ==
  /\ ppc = "return"
  /\ outcome' = "Ok"
  /\ ppc' = "returned"
  /\ UNCHANGED <<img_format, img_width, img_height, img_data, img_before,
                 temp_data, acquisitions, history, iteration, ask>>
  /\ UNCHANGED notApplyVars

NextApply ==
  \/ ApplyBlurCall
  \/ Premultiply
  \/ Acquire
  \/ PassH
  \/ PassV
  \/ Release
  \/ Unpremultiply
  \/ ReturnOk

SpecApply == InitApply /\ [][NextApply]_vars

-----------------------------------------------------------------------------
(* One CalcArena shared by several threads: the RwLock around              *)
(* linear_values, statement by statement (length.rs).                      *)

Threads == {"t1", "t2"}

MaxCalls == 2

MaxPanics == 1

\* a write lock that is granted while another guard is held
write_admits_Always(w, rs) == TRUE

\* RwLock::write blocks while any guard is held
write_admits(w, rs) == w = "none" /\ rs = {}

\* RwLock::read blocks while the write guard is held
read_admits(w) == w = "none"

\* a lock result that is unwrapped: a poisoned lock panics the caller
guard_of_Unwrap(is_poisoned) == IF is_poisoned THEN "lock_failed" ELSE "guard"

\* match lock { Ok(values) => values, Err(poisoned) => poisoned.into_inner() }
guard_of(is_poisoned) == "guard"

Idle(made) ==
  [pc |-> "idle", op |-> "none", calls |-> made, linear |-> CalcLinear_default,
   val |-> 0, basis |-> F32Zero, value |-> F32Zero, len |-> 0, panicked |-> FALSE]

\* pointer values handed to resolve_calc_value: the null pointer, one that
\* decodes to id 0, one that decodes to an id past the fullest arena, and
\* every handle returned so far
ResolveInputs ==
  {0, 7, 8 * (MaxCalls * Cardinality(Threads) + 1)} \cup {h.handle : h \in issued}

\* the value a thread registers with its n-th call
LinearOf(t, n) ==
  IF (t = "t1") = (n % 2 = 1)
  THEN [px |-> F32FromInt(10), percent |-> F32Literal(5, 10)]
  ELSE [px |-> F32FromInt(-12), percent |-> F32FromInt(1)]

InitLock ==
  /\ shared_values = <<>>
  /\ writer = "none"
  /\ readers = {}
  /\ poisoned = FALSE
  /\ threads = [t \in Threads |-> Idle(0)]
  /\ issued = {}
  /\ overflow_checks \in BOOLEAN
  /\ panics = 0
  /\ IdleTree
  /\ IdleBreak
  /\ IdleCalc
  /\ IdleLength
  /\ IdleArena
  /\ IdleAffine
  /\ IdleBlur
  /\ IdleApply
  /\ IdleTask
  /\ IdleInline

\* a thread calls arena.register_linear(linear)
CallRegister ==
  /\ \E t \in Threads :
     \E linear \in {LinearOf(t, threads[t].calls + 1)} :
       /\ threads[t].pc = "idle"
       /\ threads[t].calls < MaxCalls
       /\ threads' = [threads EXCEPT ![t] =
            [Idle(threads[t].calls + 1) EXCEPT !.pc = "write", !.op = "register_linear",
                                               !.linear = linear]]
  /\ UNCHANGED <<shared_values, writer, readers, poisoned, issued, overflow_checks, panics>>
  /\ UNCHANGED notLockVars

\* self.linear_values.write(), with the poisoned guard recovered
WriteLock ==
  /\ \E t \in Threads :
       /\ threads[t].pc = "write"
       /\ write_admits(writer, readers)
       /\ writer' = t
       /\ threads' = [threads EXCEPT ![t].pc =
            IF guard_of(poisoned) = "guard" THEN "push" ELSE "lock_failed"]
  /\ UNCHANGED <<shared_values, readers, poisoned, issued, overflow_checks, panics>>
  /\ UNCHANGED notLockVars

\* linear_values.push(linear)
Push ==
  /\ \E t \in Threads :
       /\ threads[t].pc = "push"
       /\ shared_values' = Append(shared_values, threads[t].linear)
       /\ threads' = [threads EXCEPT ![t].pc = "len"]
  /\ UNCHANGED <<writer, readers, poisoned, issued, overflow_checks, panics>>
  /\ UNCHANGED notLockVars

\* encode_linear_id(linear_values.len()); the guard is dropped on return
EncodeLen ==
  /\ \E t \in Threads :
       /\ threads[t].pc = "len"
       /\ \E handle \in {encode_linear_id(Len(shared_values))} :
            /\ threads' = [threads EXCEPT ![t].pc = "idle", ![t].val = handle,
                                          ![t].len = Len(shared_values)]
            /\ issued' = issued \cup
                 {[thread |-> t, handle |-> handle, linear |-> threads[t].linear]}
       /\ writer' = IF writer = t THEN "none" ELSE writer
  /\ UNCHANGED <<shared_values, readers, poisoned, overflow_checks, panics>>
  /\ UNCHANGED notLockVars

\* a writer panics while it holds the guard (Vec::push on capacity
\* overflow): unwinding drops the guard and poisons the lock
WriterPanics ==
  /\ panics < MaxPanics
  /\ \E t \in Threads :
       /\ threads[t].pc \in {"push", "len"}
       /\ threads' = [threads EXCEPT ![t].pc = "panicked", ![t].panicked = TRUE]
       /\ writer' = IF writer = t THEN "none" ELSE writer
  /\ poisoned' = TRUE
  /\ panics' = panics + 1
  /\ UNCHANGED <<shared_values, readers, issued, overflow_checks>>
  /\ UNCHANGED notLockVars

\* a thread calls arena.resolve_calc_value(val, basis):
\* let Some(id) = decode_linear_id(val) else { return 0.0 }
CallResolve ==
  /\ \E t \in Threads, val \in ResolveInputs, basis \in {F32FromInt(200)} :
       /\ threads[t].pc = "idle"
       /\ threads[t].calls < MaxCalls
       /\ threads' = [threads EXCEPT ![t] =
            [Idle(threads[t].calls + 1) EXCEPT
               !.pc = IF decode_linear_id(val).some THEN "read" ELSE "idle",
               !.op = "resolve_calc_value", !.val = val, !.basis = basis,
               !.len = Len(shared_values)]]
  /\ UNCHANGED <<shared_values, writer, readers, poisoned, issued, overflow_checks, panics>>
  /\ UNCHANGED notLockVars

\* self.linear_values.read(), with the poisoned guard recovered
ReadLock ==
  /\ \E t \in Threads :
       /\ threads[t].pc = "read"
       /\ read_admits(writer)
       /\ readers' = readers \cup {t}
       /\ threads' = [threads EXCEPT ![t].pc =
            IF guard_of(poisoned) = "guard" THEN "get" ELSE "lock_failed"]
  /\ UNCHANGED <<shared_values, writer, poisoned, issued, overflow_checks, panics>>
  /\ UNCHANGED notLockVars

\* linear_values.get(id - 1).map(|l| l.resolve(basis)).unwrap_or(0.0); id - 1
\* is a usize subtraction, which panics on 0 - 1 in a build with overflow
\* checks and wraps in a build without; the guard is dropped either way
GetAndResolve ==
  /\ \E t \in Threads :
       /\ threads[t].pc = "get"
       /\ readers' = readers \ {t}
       /\ IF decode_linear_id(threads[t].val).value = 0 /\ overflow_checks
          THEN threads' = [threads EXCEPT ![t].pc = "panicked", ![t].panicked = TRUE,
                                          ![t].len = Len(shared_values)]
          ELSE threads' = [threads EXCEPT ![t].pc = "idle", ![t].len = Len(shared_values),
                 ![t].value = resolve_calc_value(shared_values, threads[t].val,
                                                 threads[t].basis)]
  /\ UNCHANGED <<shared_values, writer, poisoned, issued, overflow_checks, panics>>
  /\ UNCHANGED notLockVars

NextLock ==
  \/ CallRegister
  \/ WriteLock
  \/ Push
  \/ EncodeLen
  \/ WriterPanics
  \/ CallResolve
  \/ ReadLock
  \/ GetAndResolve

SpecLock == InitLock /\ [][NextLock]_vars


-----------------------------------------------------------------------------
(* FetchTaskCollection (resources/task.rs).                                *)

MaxRequested == 4

MaxBatch == 2

\* FetchTask = Arc<str>: tasks are equal when their URLs are equal
FetchTasks == {"a.png", "b.png", "c.woff"}

\* SmallVec::contains
contains(self, task) == \E i \in 1..Len(self) : self[i] = task

\* an insert that pushes without looking
insert_Unconditional(self, task) == Append(self, task)

\* fn insert: if !self.0.contains(&task) { self.0.push(task) }
insert(self, task) == IF ~contains(self, task) THEN Append(self, task) ELSE self

\* fn insert_many: for task in tasks_iter { self.insert(task) }
RECURSIVE insert_many(_, _)
insert_many(self, tasks) ==
  IF tasks = <<>> THEN self
  ELSE insert_many(insert(self, Head(tasks)), Tail(tasks))

\* fn into_inner: self.0
into_inner(self) == self

InitTask ==
  /\ collection = <<>>
  /\ requested = <<>>
  /\ before_insert = <<>>
  /\ last_insert = <<>>
  /\ inner = <<>>
  /\ qpc = "default"
  /\ IdleTree
  /\ IdleBreak
  /\ IdleCalc
  /\ IdleLength
  /\ IdleArena
  /\ IdleAffine
  /\ IdleBlur
  /\ IdleApply
  /\ IdleLock
  /\ IdleInline

\* collection.insert(task)
Insert ==
  /\ qpc # "into_inner"
  /\ Len(requested) < MaxRequested
  /\ \E task \in FetchTasks :
       /\ collection' = insert(collection, task)
       /\ requested' = Append(requested, task)
       /\ last_insert' = <<task>>
  /\ before_insert' = collection
  /\ qpc' = "insert"
  /\ UNCHANGED inner
  /\ UNCHANGED notTaskVars

\* collection.insert_many(tasks)
InsertMany ==
  /\ qpc # "into_inner"
  /\ \E tasks \in SeqsUpTo(FetchTasks, MaxBatch) :
       /\ Len(requested) + Len(tasks) <= MaxRequested
       /\ collection' = insert_many(collection, tasks)
       /\ requested' = requested \o tasks
       /\ last_insert' = tasks
  /\ before_insert' = collection
  /\ qpc' = "insert_many"
  /\ UNCHANGED inner
  /\ UNCHANGED notTaskVars

\* collection.into_inner(), which consumes the collection
IntoInner ==
  /\ qpc # "into_inner"
  /\ inner' = into_inner(collection)
  /\ qpc' = "into_inner"
  /\ UNCHANGED <<collection, requested, before_insert, last_insert>>
  /\ UNCHANGED notTaskVars

NextTask == Insert \/ InsertMany \/ IntoInner

SpecTask == InitTask /\ [][NextTask]_vars


-----------------------------------------------------------------------------
(* create_inline_layout statement by statement (inline.rs 79-162).         *)

MaxInlineItems == 2

\* the length in bytes of every collapsed text
TextBytes == 3

TextWrapStyles == {"Auto", "Balance", "Pretty"}

\* style.parent.text_wrap_style.unwrap_or(style.parent.text_wrap.style)
text_wrap_style(longhand, shorthand) ==
  IF longhand # "unset" THEN longhand ELSE shorthand

\* the closure handed to tree_builder: texts are pushed as spans, nodes as
\* inline boxes at the current byte position
RECURSIVE build_items(_, _)
build_items(todo, acc) ==
  IF todo = <<>> THEN acc
  ELSE IF Head(todo) = "Text"
  THEN build_items(Tail(todo),
         [acc EXCEPT !.index_pos = acc.index_pos + TextBytes,
                     !.text_spans = Append(acc.text_spans, acc.idx)])
  ELSE build_items(Tail(todo),
         [acc EXCEPT !.boxes = Append(acc.boxes, [index |-> acc.index_pos, id |-> acc.idx]),
                     !.idx = acc.idx + 1])

\* a function that goes on to align the layout it only had to measure
statement_after_IgnoresMeasureOnly(op, measure_only, wrap) ==
  CASE op = "build" -> "break_lines"
    [] op = "break_lines" ->
         IF wrap = "Balance" THEN "make_balanced_text"
         ELSE IF wrap = "Pretty" THEN "make_pretty_text"
         ELSE "align"
    [] op = "make_balanced_text" -> IF wrap = "Pretty" THEN "make_pretty_text" ELSE "align"
    [] op = "make_pretty_text" -> "align"
    [] op = "align" -> "return"

\* the statement create_inline_layout runs after `op` (lines 135-161)
statement_after(op, measure_only, wrap) ==
  CASE op = "build" -> "break_lines"
    [] op = "break_lines" ->
         IF measure_only THEN "return"
         ELSE IF wrap = "Balance" THEN "make_balanced_text"
         ELSE IF wrap = "Pretty" THEN "make_pretty_text"
         ELSE "align"
    [] op = "make_balanced_text" -> IF wrap = "Pretty" THEN "make_pretty_text" ELSE "align"
    [] op = "make_pretty_text" -> "align"
    [] op = "align" -> "return"

\* the text-wrap style of the running call
WrapStyle == text_wrap_style(wrap_longhand, wrap_shorthand)

InitInline ==
  /\ inline_items \in SeqsUpTo({"Text", "Node"}, MaxInlineItems)
  /\ measuring \in BOOLEAN
  /\ wrap_longhand \in {"unset"} \cup TextWrapStyles
  /\ wrap_shorthand \in TextWrapStyles
  /\ built = <<>>
  /\ passes_run = <<>>
  /\ ipc = "build"
  /\ IdleTree
  /\ IdleBreak
  /\ IdleCalc
  /\ IdleLength
  /\ IdleArena
  /\ IdleAffine
  /\ IdleBlur
  /\ IdleApply
  /\ IdleLock
  /\ IdleTask

\* global.font_context.tree_builder(style.into(), |builder| { for item in items ... })
BuildLayout ==
  /\ ipc = "build"
  /\ built' = build_items(inline_items,
                [idx |-> 0, index_pos |-> 0, boxes |-> <<>>, text_spans |-> <<>>])
  /\ passes_run' = Append(passes_run, "build")
  /\ ipc' = statement_after("build", measuring, WrapStyle)
  /\ UNCHANGED <<inline_items, measuring, wrap_longhand, wrap_shorthand>>
  /\ UNCHANGED notInlineVars

\* break_lines(&mut layout, max_width, max_height)
BreakLines ==
  /\ ipc = "break_lines"
  /\ passes_run' = Append(passes_run, "break_lines")
  /\ ipc' = statement_after("break_lines", measuring, WrapStyle)
  /\ UNCHANGED <<inline_items, measuring, wrap_longhand, wrap_shorthand, built>>
  /\ UNCHANGED notInlineVars

\* make_balanced_text(&mut layout, max_width, line_count)
MakeBalancedText ==
  /\ ipc = "make_balanced_text"
  /\ passes_run' = Append(passes_run, "make_balanced_text")
  /\ ipc' = statement_after("make_balanced_text", measuring, WrapStyle)
  /\ UNCHANGED <<inline_items, measuring, wrap_longhand, wrap_shorthand, built>>
  /\ UNCHANGED notInlineVars

\* make_pretty_text(&mut layout, max_width)
MakePrettyText ==
  /\ ipc = "make_pretty_text"
  /\ passes_run' = Append(passes_run, "make_pretty_text")
  /\ ipc' = statement_after("make_pretty_text", measuring, WrapStyle)
  /\ UNCHANGED <<inline_items, measuring, wrap_longhand, wrap_shorthand, built>>
  /\ UNCHANGED notInlineVars

\* layout.align(Some(max_width), style.parent.text_align.into(), Default::default())
AlignLayout ==
  /\ ipc = "align"
  /\ passes_run' = Append(passes_run, "align")
  /\ ipc' = statement_after("align", measuring, WrapStyle)
  /\ UNCHANGED <<inline_items, measuring, wrap_longhand, wrap_shorthand, built>>
  /\ UNCHANGED notInlineVars

\* (layout, text, boxes)
ReturnLayout ==
  /\ ipc = "return"
  /\ ipc' = "returned"
  /\ UNCHANGED <<inline_items, measuring, wrap_longhand, wrap_shorthand, built, passes_run>>
  /\ UNCHANGED notInlineVars

NextInline ==
  \/ BuildLayout
  \/ BreakLines
  \/ MakeBalancedText
  \/ MakePrettyText
  \/ AlignLayout
  \/ ReturnLayout

SpecInline == InitInline /\ [][NextInline]_vars

-----------------------------------------------------------------------------
(* Properties of the box tree builder.                                     *)

IsAnonymous(b) == b.node = NoNode

\* a child list with every anonymous box replaced by its children
RECURSIVE Unwrap(_)
Unwrap(children) ==
  IF children = <<>> THEN <<>>
  ELSE IF IsAnonymous(Head(children))
       THEN Head(children).children \o Unwrap(Tail(children))
       ELSE <<Head(children)>> \o Unwrap(Tail(children))

RECURSIVE BoxesOf(_)
BoxesOf(b) ==
  {b} \cup UNION {BoxesOf(b.children[i]) : i \in 1..Len(b.children)}

\* the box built from the input node at path p
BoxAt(p) == CHOOSE b \in BoxesOf(tree) : b.node = p

DeclaredInline(n) == n.display = "Inline"

MixedChildren(n) ==
  /\ \E i \in 1..Len(n.children) : DeclaredInline(n.children[i])
  /\ \E i \in 1..Len(n.children) : ~DeclaredInline(n.children[i])

\* the input containers of the tree with their paths: the root and its
\* container children
InputContainers ==
  {c \in {[path |-> RootPath, node |-> root]} \cup
          {[path |-> Append(RootPath, i), node |-> root.children[i]] :
             i \in 1..Len(root.children)} :
     c.node.kind = "container"}

\* the children of box b are the children of input n, same order, none wrapped
SameChildren(n, path, b) ==
  /\ Len(b.children) = Len(n.children)
  /\ \A i \in 1..Len(b.children) : b.children[i].node = Append(path, i)

WrappedInRuns(n, path, b) ==
  LET cs == b.children
      flat == Unwrap(cs)
  IN /\ Len(flat) = Len(n.children)
     /\ \A i \in 1..Len(flat) :
          /\ flat[i].node = Append(path, i)
          /\ flat[i].display = n.children[i].display
     /\ \A j \in 1..Len(cs) :
          IF IsAnonymous(cs[j])
          THEN /\ cs[j].display = "Block"
               /\ cs[j].rest = "default"
               /\ cs[j].has_children
               /\ cs[j].children # <<>>
               /\ \A k \in 1..Len(cs[j].children) : is_inline(cs[j].children[k])
          ELSE ~is_inline(cs[j])
     /\ \A j \in 1..(Len(cs) - 1) : ~(IsAnonymous(cs[j]) /\ IsAnonymous(cs[j + 1]))

\* C1: a Block container with a mix of inline and non-inline children gets
\* every maximal run of consecutive inline children replaced by one anonymous
\* box (no node, display Block, default style) holding that run in order;
\* non-inline children stay in place; unwrapping the anonymous boxes gives
\* back the original children; no anonymous box is empty, no two are adjacent.
C1_MixedChildrenWrapped ==
  tpc = "built" =>
    \A c \in InputContainers :
      (c.node.display = "Block" /\ MixedChildren(c.node))
        => WrappedInRuns(c.node, c.path, BoxAt(c.path))

C1_Witness ==
  /\ tpc = "built"
  /\ root.kind = "container"
  /\ root.display = "Block"
  /\ Len(root.children) = 4
  /\ [i \in 1..4 |-> root.children[i].display] = <<"Inline", "Inline", "Block", "Inline">>
  /\ Len(tree.children) = 3

\* C2: in the tree returned by from_node every box whose display is Block has
\* children that are all inline or all non-inline.
C2_BlockChildrenUniform ==
  tpc # "start" =>
    \A b \in BoxesOf(tree) :
      b.display = "Block" =>
        \/ \A i \in 1..Len(b.children) : is_inline(b.children[i])
        \/ \A i \in 1..Len(b.children) : ~is_inline(b.children[i])

\* C3: no node tree built by from_node reaches one of the fatal paths of
\* insert_into_taffy, measure, create_inline_layout or the inline iterator.
C3_FaultsUnreachable == fault = "none"

\* C4: a container whose children are all inline, all non-inline or absent
\* keeps its child list: same boxes, same order, no anonymous box; unless the
\* container blockifies its children the boxes keep their declared display.
C4_UniformChildrenUntouched ==
  tpc = "built" =>
    \A c \in InputContainers :
      ~MixedChildren(c.node) =>
        /\ SameChildren(c.node, c.path, BoxAt(c.path))
        /\ ~should_blockify_children(c.node.display) =>
             \A i \in 1..Len(c.node.children) :
               BoxAt(c.path).children[i].display = c.node.children[i].display

C4_Witness ==
  /\ tpc = "built"
  /\ root.kind = "container"
  /\ root.display = "Block"
  /\ Len(root.children) = 3
  /\ \A i \in 1..3 : root.children[i].display = "Inline"
  /\ Len(tree.children) = 3

\* C5: a container that blockifies its children returns them in the original
\* order with no anonymous box, none of them inline: every child declared
\* inline has display Block, whatever the declared mix.
C5_BlockifiedChildren ==
  tpc = "built" =>
    \A c \in InputContainers :
      should_blockify_children(c.node.display) =>
        /\ SameChildren(c.node, c.path, BoxAt(c.path))
        /\ \A i \in 1..Len(c.node.children) :
             /\ ~is_inline(BoxAt(c.path).children[i])
             /\ DeclaredInline(c.node.children[i])
                  => BoxAt(c.path).children[i].display = "Block"

C5_Witness ==
  /\ tpc = "built"
  /\ root.kind = "container"
  /\ should_blockify_children(root.display)
  /\ Len(root.children) = 3
  /\ [i \in 1..3 |-> root.children[i].display] = <<"Inline", "Block", "Inline">>
  /\ \A i \in 1..3 : tree.children[i].display = "Block"

\* C6: the root of the tree returned by from_node never has display Inline.
C6_RootNeverInline == tpc # "start" => tree.display # "Inline"

C6_Witness ==
  /\ tpc = "built"
  /\ root.display = "Inline"
  /\ tree.display = "Block"

-----------------------------------------------------------------------------
(* Properties of break_lines.                                              *)

RECURSIVE SumSeq(_)
SumSeq(q) == IF q = <<>> THEN 0 ELSE Head(q) + SumSeq(Tail(q))

Min(a, b) == IF a < b THEN a ELSE b

HasHeightCap == max_height.kind \in {"Absolute", "HeightAndLines"}

\* C7: under a height cap H, after break_lines the committed lines are a
\* prefix of the unconstrained line sequence whose heights sum to at most H;
\* when a commit pushed the running total above H that line was reverted and
\* the lines committed before it are kept; breaking stopped short only at the
\* cap (the total reached H, or the next line would exceed it) or at the
\* line cap.
C7_HeightCapRespected ==
  (bpc = "done" /\ HasHeightCap) =>
    LET k == Len(layout)
        H == max_height.height
    IN /\ k <= Len(lines)
       /\ layout = SubSeq(lines, 1, k)
       /\ SumSeq(layout) <= H
       /\ total_height > H =>
            /\ k < Len(lines)
            /\ SumSeq(SubSeq(lines, 1, k + 1)) = total_height
       /\ (k < Len(lines) /\ (max_height.kind = "HeightAndLines" => k < max_height.lines))
            => \/ SumSeq(layout) >= H
               \/ SumSeq(layout) + lines[k + 1] > H

C7_Witness ==
  /\ bpc = "done"
  /\ max_height.kind = "Absolute"
  /\ total_height > max_height.height
  /\ Len(layout) = 2
  /\ Len(lines) = 4

\* C8: with Lines(n) break_lines commits exactly min(n, N) lines and calls
\* break_next at most n times, so never after n lines were committed; with
\* HeightAndLines(H, n) the number of committed lines never exceeds n.
C8_LineCapRespected ==
  /\ max_height.kind = "Lines" =>
       /\ calls <= max_height.lines
       /\ Len(layout) <= max_height.lines
       /\ bpc = "done" => /\ Len(layout) = Min(max_height.lines, Len(lines))
                          /\ layout = SubSeq(lines, 1, Len(layout))
  /\ max_height.kind = "HeightAndLines" => Len(layout) <= max_height.lines

C8_Witness ==
  /\ bpc = "done"
  /\ max_height.kind = "Lines"
  /\ max_height.lines = 2
  /\ Len(lines) = 4
  /\ Len(layout) = 2

-----------------------------------------------------------------------------
(* Properties of calc() parsing and resolution.                            *)

\* e without the signs and calc() wrappers around it
RECURSIVE Bare(_)
Bare(e) == IF e.op \in {"neg", "calc"} THEN Bare(e.args[1]) ELSE e

IsLiteralZero(e) == Bare(e).op = "num" /\ Bare(e).value = 0

\* the CSS type of e: "number", "length" (unit-bearing) or "error"
RECURSIVE TypeOf(_)
TypeOf(e) ==
  CASE e.op = "num" -> "number"
    [] e.op \in {"dim", "pct"} -> "length"
    [] e.op \in {"neg", "calc"} -> TypeOf(e.args[1])
    [] e.op \in {"add", "sub"} ->
         LET l == TypeOf(e.args[1])
             r == TypeOf(e.args[2])
         IN IF l = r THEN l ELSE "error"
    [] e.op = "mul" ->
         LET l == TypeOf(e.args[1])
             r == TypeOf(e.args[2])
         IN IF l = "error" \/ r = "error" THEN "error"
            ELSE IF l = "length" /\ r = "length" THEN "error"
            ELSE IF l = "number" /\ r = "number" THEN "number"
            ELSE "length"
    [] e.op = "div" ->
         LET l == TypeOf(e.args[1])
             r == TypeOf(e.args[2])
         IN IF r # "number" \/ IsLiteralZero(e.args[2]) THEN "error" ELSE l

\* C9: a calc() expression that divides by a numeric zero, divides by a
\* unit-bearing operand, multiplies two unit-bearing operands, or adds or
\* subtracts a unitless number and a unit-bearing operand fails to parse.
C9_ArithmeticErrorsFailParse ==
  (cpc \in {"parsed", "resolved"} /\ TypeOf(expr) = "error") => ~parsed.ok

C9_Witness ==
  /\ cpc = "parsed"
  /\ expr = Bin("div", Dim(3, "px"), Num(0))
  /\ ~parsed.ok

\* |a - b| <= 1e-4 as an f32 comparison
WithinTolerance(a, b) == F32Le(F32Abs(F32Sub(a, b)), F32Literal(1, 10000))

RECURSIVE MaxOperand(_)
MaxOperand(e) ==
  IF e.args = <<>> THEN e.value
  ELSE IF Len(e.args) = 1 THEN MaxOperand(e.args[1])
  ELSE IF MaxOperand(e.args[1]) >= MaxOperand(e.args[2]) THEN MaxOperand(e.args[1])
  ELSE MaxOperand(e.args[2])

\* operands up to this magnitude keep every value of the checked
\* expressions far below 2^24, where f32 stops holding every integer
MaxSmallOperand == 100

-----------------------------------------------------------------------------
(* Properties of Length::negative, make_computed and to_px.                *)

IsFormula(l) == l.variant = "Calc" /\ l.handle.kind = "Formula"

IsLinear(l) == l.variant = "Calc" /\ l.handle.kind = "Linear"

\* calc(100% - 12px) as written
HundredPercentMinusTwelvePx == Calc(Bin("sub", Pct(100), Dim(12, "px")))

\* the formula with the given percent and px coefficients, the rest zero
PercentPxFormula(percent, pixels) ==
  [CalcFormula_default EXCEPT !["percent"] = percent, !["px"] = pixels]

\* C11: negating a Length::Calc value (formula or linear) negates every
\* coefficient, and to_px of the negated value is minus to_px of the value,
\* for every sizing and basis; calc(100% - 12px) parses to
\* {percent: 1.0, px: -12.0} and its negation is {percent: -1.0, px: 12.0}.
C11_NegatedCalcNegatesPx ==
  /\ (lpc = "negative" /\ IsFormula(lv_prev)) =>
       /\ IsFormula(lv)
       /\ \A u \in FormulaFields :
            lv.handle.formula[u] = F32Neg(lv_prev.handle.formula[u])
       /\ lpx = F32Neg(lpx_prev)
  /\ (lpc = "negative" /\ IsLinear(lv_prev)) =>
       /\ IsLinear(lv)
       /\ lv.handle.linear.px = F32Neg(lv_prev.handle.linear.px)
       /\ lv.handle.linear.percent = F32Neg(lv_prev.handle.linear.percent)
       /\ lpx = F32Neg(lpx_prev)
  /\ (lpc = "parsed" /\ written = HundredPercentMinusTwelvePx) =>
       (IsFormula(lv)
          /\ lv.handle.formula = PercentPxFormula(F32FromInt(1), F32FromInt(-12)))
  /\ (lpc = "negative" /\ nops = 1 /\ written = HundredPercentMinusTwelvePx) =>
       (IsFormula(lv)
          /\ lv.handle.formula = PercentPxFormula(F32FromInt(-1), F32FromInt(12)))

C11_Witness ==
  /\ lpc = "negative"
  /\ nops = 1
  /\ written = HundredPercentMinusTwelvePx
  /\ lv.handle.formula = PercentPxFormula(F32FromInt(-1), F32FromInt(12))
  /\ lbasis = F32FromInt(200)
  /\ lsizing.viewport.device_pixel_ratio = F32FromInt(2)
  /\ lpx_prev = F32FromInt(176)
  /\ lpx = F32FromInt(-176)

\* |x| <= 1e-6
WithinEpsilon(x) == F32Le(F32Abs(x), F32Literal(1, 1000000))

\* C12: make_computed on Calc(Formula f), with L = f.resolve(sizing), gives
\* Px(L.px / device_pixel_ratio) if |L.percent| <= 1e-6, else
\* Percentage(L.percent * 100) if |L.px| <= 1e-6, else Calc(Linear(L)); no
\* Calc(Formula) value is left by make_computed.
C12_MakeComputedOutcomes ==
  /\ lpc = "make_computed" => ~IsFormula(lv)
  /\ (lpc = "make_computed" /\ IsFormula(lv_prev)) =>
       \E L \in {CalcFormula_resolve(lv_prev.handle.formula, lsizing)} :
         IF WithinEpsilon(L.percent)
         THEN lv = Length("Px", F32Div(L.px, lsizing.viewport.device_pixel_ratio))
         ELSE IF WithinEpsilon(L.px)
         THEN lv = Length("Percentage", F32Mul(L.percent, F32FromInt(100)))
         ELSE lv = Length_Calc(CalcHandle_Linear(L))

C12_Witness ==
  /\ lpc = "make_computed"
  /\ nops = 1
  /\ written = Calc(Bin("add", Pct(50), Dim(12, "px")))
  /\ lsizing.viewport.device_pixel_ratio = F32FromInt(2)
  /\ lv = Length_Calc(CalcHandle_Linear([px |-> F32FromInt(24), percent |-> F32Literal(5, 10)]))

IsPowerOfTwo(x) == x[1] = 1

WithoutDpr(s) == [s EXCEPT !.viewport.device_pixel_ratio = F32FromInt(1)]

-----------------------------------------------------------------------------
(* Properties of CalcArena handles.                                        *)

HandlesOf(a) == {h \in returned : h.arena = a}

\* C15: after any sequence of register_linear calls on one CalcArena, every
\* handle returned so far is non-null and differs from every other handle
\* the arena returned, and resolve_calc_value(handle, basis) on that arena
\* is px + percent * basis of the linear value of the call that returned
\* the handle, also after later registrations.
C15_HandleRoundTrip ==
  /\ \A h \in returned : h.handle # 0
  /\ \A a \in Arenas :
       /\ Cardinality(HandlesOf(a)) = Len(linear_values[a])
       /\ Cardinality({h.handle : h \in HandlesOf(a)}) = Len(linear_values[a])
  /\ \A h \in returned, basis \in Bases :
       resolve_calc_value(linear_values[h.arena], h.handle, basis)
         = F32Add(h.linear.px, F32Mul(h.linear.percent, basis))
  /\ (apc = "resolve_calc_value" /\ resolved.owner = resolved.arena) =>
       resolved.value
         = F32Add(resolved.linear.px, F32Mul(resolved.linear.percent, resolved.basis))

C15_Witness ==
  /\ apc = "resolve_calc_value"
  /\ resolved.arena = "A"
  /\ resolved.owner = "A"
  /\ Len(linear_values["A"]) = 3
  /\ linear_values["A"][1] # linear_values["A"][2]
  /\ resolved.val = 8
  /\ resolved.linear = linear_values["A"][1]
  /\ resolved.linear.px = F32FromInt(10)
  /\ resolved.basis = F32FromInt(200)
  /\ resolved.value = F32FromInt(110)

\* C16: a handle returned by register_linear on one arena, passed to
\* resolve_calc_value on a different arena, never resolves to a linear
\* value registered in that other arena.
C16_ForeignHandleNeverResolves ==
  (apc = "resolve_calc_value" /\ resolved.owner \in Arenas
     /\ resolved.owner # resolved.arena)
    => ~resolved.hit

-----------------------------------------------------------------------------
(* Properties of Affine::invert and Transforms::to_affine.                 *)

AffineFields == {"a", "b", "c", "d", "x", "y"}

\* every component within 1e-4
AffineNear(m, n) == \A f \in AffineFields : WithinTolerance(m[f], n[f])

HasZeroScale(ts) ==
  \E i \in 1..Len(ts) :
    ts[i].kind = "Scale" /\ (ts[i].x = F32Zero \/ ts[i].y = F32Zero)

\* a * d - b * c of the composed matrix
InstanceDet ==
  F32Sub(F32Mul(instance.a, instance.d), F32Mul(instance.b, instance.c))

\* invert returns None exactly when |a*d - b*c| < f32::EPSILON, and so for
\* a list with a zero scale factor
InvertRefusesSingular ==
  /\ inverse.some <=> F32Le(<<1, -23>>, F32Abs(InstanceDet))
  /\ HasZeroScale(transforms) => ~inverse.some

RECURSIVE ProductDown(_, _, _)
ProductDown(ts, i, m) ==
  IF i = 0 THEN m
  ELSE Only({ ProductDown(ts, i - 1, next)
              : next \in {Affine_mul(m, TransformAffine(ts[i]))} })

\* the product Tn * ... * T1 of a declared list, the identity for none
ProductLastToFirst(ts) ==
  IF Len(ts) = 0 THEN Affine_identity
  ELSE ProductDown(ts, Len(ts) - 1, TransformAffine(ts[Len(ts)]))

\* |x - y| <= 1e-4 * max(1, |y|)
WithinRelativeTolerance(x, y) ==
  F32Le(F32Abs(F32Sub(x, y)),
        IF F32Le(F32Abs(y), F32FromInt(1)) THEN F32Literal(1, 10000)
        ELSE F32Mul(F32Literal(1, 10000), F32Abs(y)))

-----------------------------------------------------------------------------
(* Properties of the box blur.                                             *)

IsUniform(buffer) == \A i \in 1..Len(buffer) : buffer[i] = buffer[1]

\* C19: blurring a uniform buffer changes nothing: for every value v and
\* every box radius r >= 1, box_blur_h and box_blur_v on a buffer whose
\* every byte is v write v to every byte, and so does apply_blur after its
\* three horizontal and vertical passes.
C19_UniformIsFixedPoint ==
  (kpc \in {"box_blur_h", "box_blur_v", "apply_blur"} /\ IsUniform(src)) => dst = src

Clamp(i, lo, hi) == IF i < lo THEN lo ELSE IF i > hi THEN hi ELSE i

\* round(2^23 / (2r + 1))
RoundedReciprocal(r) ==
  CHOOSE m \in (2^23 \div (2 * r + 1))..(2^23 \div (2 * r + 1) + 1) :
    2 * m * (2 * r + 1) - 2^24 \in (-(2 * r + 1))..(2 * r + 1)

\* ((sum over k in -r..r of the byte at clamp(at + k, 0, n - 1)) * mul) >> 23,
\* the bytes of the line being first, first + step, ...
WindowByte(buffer, first, step, n, at, r) ==
  (SumSeq([j \in 1..(2 * r + 1) |->
             buffer[first + Clamp(at + j - 1 - r, 0, n - 1) * step + 1]])
     * RoundedReciprocal(r)) \div 2^23

\* C20: for every width, height and radius (also r >= w and r >= h) the
\* byte box_blur_h writes at column x of a row is the edge-replicated
\* window sum over columns x - r .. x + r of that row and channel, times
\* mul, shifted right by 23; box_blur_v does the same along columns with
\* rows clamped to 0..h-1.
C20_SlidingWindowIsWindowSum ==
  /\ kpc = "box_blur_h" =>
       /\ Len(dst) = Len(src)
       /\ \A y \in 0..(bheight - 1), x \in 0..(bwidth - 1), c \in 0..(channels - 1) :
            dst[y * bwidth * channels + x * channels + c + 1]
              = WindowByte(src, y * bwidth * channels + c, channels, bwidth, x, bradius)
  /\ kpc = "box_blur_v" =>
       /\ Len(dst) = Len(src)
       /\ \A y \in 0..(bheight - 1), x \in 0..(bwidth * channels - 1) :
            dst[y * bwidth * channels + x + 1]
              = WindowByte(src, x, bwidth * channels, bheight, y, bradius)

C20_Witness ==
  /\ kpc = "box_blur_h"
  /\ bwidth = 5
  /\ bheight = 2
  /\ channels = 4
  /\ bradius = 1
  /\ src = Ramp(40, 37)
  /\ dst[9] = ((src[5] + src[9] + src[13]) * 2796203) \div 8388608
  /\ dst[17] = ((src[13] + src[17] + src[17]) * 2796203) \div 8388608

-----------------------------------------------------------------------------
(* Properties of apply_blur run statement by statement.                    *)

\* the call asks for a blur too small to see, or the image has no pixels:
\* radius <= 0.5 for Filter, radius <= 1.0 for Shadow (radii in half pixels)
NoOpRequested ==
  /\ ask # <<>>
  /\ \/ ask.blur_type = "Filter" /\ ask.radius <= 1
     \/ ask.blur_type = "Shadow" /\ ask.radius <= 2
     \/ img_width = 0
     \/ img_height = 0

\* C21: whenever sigma <= 0.5 (radius <= 0.5 for Filter, radius <= 1.0 for
\* Shadow, negative radii included) or the image width or height is 0,
\* apply_blur returns Ok at once: every byte of the buffer is as it was,
\* nothing was taken from the buffer pool, no statement of the blur ran, and
\* it did not panic.
C21_SmallBlurIsNoOp ==
  NoOpRequested =>
    /\ ppc = "returned"
    /\ outcome = "Ok"
    /\ img_data = img_before
    /\ acquisitions = 0
    /\ temp_data = <<>>
    /\ history = <<>>

\* a shadow of radius exactly 1.0 on an image with pixels has returned
C21_Witness ==
  /\ NoOpRequested
  /\ ask.blur_type = "Shadow"
  /\ ask.radius = 2
  /\ img_width >= 1
  /\ img_height >= 1
  /\ Len(img_data) >= 1
  /\ outcome = "Ok"

OpsOf(steps) == [i \in 1..Len(steps) |-> steps[i].op]

IsPrefix(s, t) == Len(s) <= Len(t) /\ \A i \in 1..Len(s) : s[i] = t[i]

\* the statements of a full run, in the order the claim gives them
ExpectedOps(format) ==
  IF format = "Rgba"
  THEN <<"premultiply", "acquire", "box_blur_h", "box_blur_v", "box_blur_h",
         "box_blur_v", "box_blur_h", "box_blur_v", "release", "unpremultiply">>
  ELSE <<"acquire", "box_blur_h", "box_blur_v", "box_blur_h", "box_blur_v",
         "box_blur_h", "box_blur_v", "release">>

\* the bytes a full run leaves in the caller's buffer
BlurredBytes ==
  IF img_format = "Rgba"
  THEN unpremultiply_alpha(
         ThreePasses(PIXEL_STRIDE, premultiply_alpha(img_before), pass_params, 3))
  ELSE ThreePasses(1, img_before, pass_params, 3)

\* C22: the statements of apply_blur run in this order: for Rgba,
\* premultiply, then three times (horizontal pass reading the image and
\* writing the temporary buffer, vertical pass reading the temporary buffer
\* and writing the image), then release of the temporary buffer, then
\* un-premultiply; for Alpha the same six passes and the release, without
\* premultiplication.  No pass reads the buffer it writes, a run that
\* returns Ok after blurring has run them all, holds no temporary buffer,
\* and its result is in the caller's buffer.
C22_PassOrder ==
  /\ IsPrefix(OpsOf(history), ExpectedOps(img_format))
  /\ \A i \in 1..Len(history) :
       /\ history[i].op = "box_blur_h" =>
            history[i].reads = "image" /\ history[i].writes = "temp"
       /\ history[i].op = "box_blur_v" =>
            history[i].reads = "temp" /\ history[i].writes = "image"
  /\ (outcome = "Ok" /\ ~NoOpRequested) =>
       /\ OpsOf(history) = ExpectedOps(img_format)
       /\ iteration = 3
       /\ temp_data = <<>>
       /\ img_data = BlurredBytes

\* an Rgba image with a translucent pixel has been blurred and returned
C22_Witness ==
  /\ outcome = "Ok"
  /\ ~NoOpRequested
  /\ img_format = "Rgba"
  /\ Len(history) = 10
  /\ img_data # img_before
  /\ \E i \in 1..Len(img_before) : i % PIXEL_STRIDE = 0 /\ img_before[i] \in 1..254

\* C28 as stated: if apply_blur returns an error, the caller's pixel buffer
\* holds the same bytes as before the call.
C28_ErrLeavesBufferUntouched ==
  outcome = "Err" => img_data = img_before

-----------------------------------------------------------------------------
(* Memory safety of the unchecked accesses of the box blur passes.         *)

\* the parameters of the pass that has just run
LastPassParams ==
  BlurPassParams(bwidth, bheight, bradius, bwidth * channels,
                 compute_mul_shg(2 * bradius + 1))

\* the pixels of channel c of row y, and of column x
RowOf(y, c) == [k \in 1..bwidth |-> src[y * bwidth * channels + (k - 1) * channels + c + 1]]

ColumnOf(x) == [k \in 1..bheight |-> src[(k - 1) * bwidth * channels + x + 1]]

LowestOf(line, r) ==
  LowestSum(line, 0, TrailingEdge(line, 1, r, line[1] * (r + 1)), r, 0)

\* C26: every unchecked access of box_blur_h and box_blur_v is in bounds:
\* for every width >= 1, height >= 1 and radius >= 1 (radius >= width or
\* height included), with STRIDE 1 and stride = width or STRIDE 4 and
\* stride = 4 * width, each index is at least 0 and less than height *
\* stride, no subtraction x - r, y - r or n - 1 goes below zero, and the
\* running sum never goes below zero when the leaving pixel is subtracted.
C26_UncheckedAccessesInBounds ==
  /\ kpc = "box_blur_h" =>
       /\ \A i \in box_blur_h_offsets(channels, LastPassParams) :
            0 <= i /\ i < bheight * bwidth * channels
       /\ \A d \in differences(bradius, bwidth) : d >= 0
       /\ \A y \in 0..(bheight - 1), c \in 0..(channels - 1) :
            LowestOf(RowOf(y, c), bradius) >= 0
  /\ kpc = "box_blur_v" =>
       /\ \A i \in box_blur_v_offsets(LastPassParams) :
            0 <= i /\ i < bheight * bwidth * channels
       /\ \A d \in differences(bradius, bheight) : d >= 0
       /\ \A x \in 0..(bwidth * channels - 1) :
            LowestOf(ColumnOf(x), bradius) >= 0

\* a horizontal pass over RGBA rows narrower than the radius, whose last
\* byte is the only bright one, has run
C26_Witness ==
  /\ kpc = "box_blur_h"
  /\ channels = PIXEL_STRIDE
  /\ bwidth >= 2
  /\ bradius >= bwidth
  /\ src[Len(src)] = 255
  /\ src[1] = 0
  /\ (bheight * bwidth * channels - 1) \in box_blur_h_offsets(channels, LastPassParams)

-----------------------------------------------------------------------------
(* make_computed and the resolved pixel value.                             *)

\* C27 as stated: for every length, every sizing and every basis, to_px
\* after make_computed equals to_px before make_computed, and make_computed
\* applied twice gives the same value as applied once.
C27_MakeComputedPreservesPx ==
  lpc = "make_computed" =>
    /\ lpx = lpx_prev
    /\ make_computed(lv, lsizing) = lv

-----------------------------------------------------------------------------
(* Properties of the CalcArena shared between threads.                     *)

\* a resolve_calc_value call that has returned or panicked
Resolved(t) ==
  /\ threads[t].op = "resolve_calc_value"
  /\ threads[t].pc \in {"idle", "panicked"}

\* C29 as stated: resolve_calc_value returns 0.0 and never panics for the
\* null handle, for a raw value in 1..=7 (which decodes to id 0) and for a
\* value that decodes to an id greater than the number of registered
\* entries.
C29_UnknownHandleResolvesToZero ==
  \A t \in Threads :
    (Resolved(t) /\ (threads[t].val \in 0..7 \/ threads[t].val \div 8 > threads[t].len))
      => (~threads[t].panicked /\ threads[t].value = F32Zero)

\* C30: under any interleaving of register_linear and resolve_calc_value
\* calls from several threads on one CalcArena, every handle returned
\* differs from every other handle returned, the entry it designates holds
\* the value registered by the call that returned it, resolving it at any
\* later time gives px + percent * basis of that value, the push and the
\* length read happen under the exclusive write guard (no other guard is
\* held meanwhile), and after a writer has panicked while holding the
\* guard no later call fails to take the lock.
C30_SharedArenaHandles ==
  /\ \A g, h \in issued : g.handle = h.handle => g = h
  /\ \A h \in issued :
       /\ h.handle # 0
       /\ h.handle \div 8 <= Len(shared_values)
       /\ shared_values[h.handle \div 8] = h.linear
  /\ \A t \in Threads :
       /\ threads[t].pc \in {"push", "len"} => (writer = t /\ readers = {})
       /\ threads[t].pc # "lock_failed"
       /\ (Resolved(t) /\ threads[t].pc = "idle") =>
            \A h \in issued :
              h.handle = threads[t].val =>
                threads[t].value
                  = F32Add(h.linear.px, F32Mul(h.linear.percent, threads[t].basis))

\* after one writer panicked, the other thread registered a value and
\* resolved its handle
C30_Witness ==
  /\ poisoned
  /\ \E t \in Threads, h \in issued :
       /\ Resolved(t)
       /\ threads[t].pc = "idle"
       /\ h.thread = t
       /\ h.handle = threads[t].val
       /\ Len(shared_values) = 2
       /\ h.handle = 16
       /\ threads[t].value # F32Zero

-----------------------------------------------------------------------------
(* Properties of InlineItemIterator.                                       *)

\* every box below b is display inline
RECURSIVE AllInlineBelow(_)
AllInlineBelow(b) ==
  \A i \in 1..Len(b.children) :
    b.children[i].display = "Inline" /\ AllInlineBelow(b.children[i])

\* the node payloads with inline content in the subtree of b, depth first,
\* a box before its children, children left to right
RECURSIVE DocumentOrder(_)
RECURSIVE DocumentOrderOf(_, _)
DocumentOrder(b) ==
  (IF b.node # NoNode /\ b.kind = "text" THEN <<b.node>> ELSE <<>>)
    \o DocumentOrderOf(b.children, 1)

DocumentOrderOf(children, i) ==
  IF i > Len(children) THEN <<>>
  ELSE DocumentOrder(children[i]) \o DocumentOrderOf(children, i + 1)

\* the boxes on which create_inline_layout and measure run the iterator
IteratedBoxes ==
  {taffy[i] : i \in {k \in 1..Len(taffy) :
                       taffy[k].display = "Block" /\ AllInlineBelow(taffy[k])}}

-----------------------------------------------------------------------------
(* Properties of FetchTaskCollection.                                      *)

\* the distinct elements of s in the order of their first occurrence
RECURSIVE FirstOccurrences(_, _)
FirstOccurrences(s, seen) ==
  IF s = <<>> THEN seen
  ELSE FirstOccurrences(Tail(s),
         IF \E i \in 1..Len(seen) : seen[i] = Head(s) THEN seen
         ELSE Append(seen, Head(s)))

\* C23: after any sequence of insert and insert_many calls the collection
\* holds each distinct task handed to it exactly once, in the order of its
\* first insertion, and into_inner returns exactly that; inserting a task
\* that is already present leaves the collection unchanged.
C23_DeduplicatedInsertionOrder ==
  /\ collection = FirstOccurrences(requested, <<>>)
  /\ \A i, j \in 1..Len(collection) : collection[i] = collection[j] => i = j
  /\ \A task \in FetchTasks :
       (\E i \in 1..Len(requested) : requested[i] = task)
         <=> (\E i \in 1..Len(collection) : collection[i] = task)
  /\ qpc = "into_inner" => inner = FirstOccurrences(requested, <<>>)
  /\ (qpc \in {"insert", "insert_many"}
        /\ \A i \in 1..Len(last_insert) : contains(before_insert, last_insert[i]))
       => collection = before_insert

\* into_inner after a, b and then a batch that repeats a and adds c
C23_Witness ==
  /\ qpc = "into_inner"
  /\ requested = <<"a.png", "b.png", "a.png", "c.woff">>
  /\ last_insert = <<"a.png", "c.woff">>
  /\ inner = <<"a.png", "b.png", "c.woff">>

-----------------------------------------------------------------------------
(* Properties of the steps of create_inline_layout.                        *)

\* the steps of a whole call, as the claim orders them
ExpectedPasses ==
  <<"build", "break_lines">>
    \o (IF measuring THEN <<>>
        ELSE (IF WrapStyle = "Balance" THEN <<"make_balanced_text">> ELSE <<>>)
               \o (IF WrapStyle = "Pretty" THEN <<"make_pretty_text">> ELSE <<>>)
               \o <<"align">>)

CountOf(s, op) == Cardinality({i \in 1..Len(s) : s[i] = op})

\* C25: in create_inline_layout line breaking is the first step run on the
\* built layout; with measure_only the function returns right after it,
\* with no balance pass, no pretty pass and no alignment; without
\* measure_only the balance pass (text-wrap-style balance) or the pretty
\* pass (text-wrap-style pretty) runs after breaking and before alignment,
\* and alignment runs exactly once, as the last step.
C25_InlineStepOrder ==
  /\ IsPrefix(passes_run, ExpectedPasses)
  /\ Len(passes_run) >= 2 => passes_run[2] = "break_lines"
  /\ CountOf(passes_run, "break_lines") <= 1
  /\ CountOf(passes_run, "align") <= 1
  /\ measuring =>
       CountOf(passes_run, "make_balanced_text") + CountOf(passes_run, "make_pretty_text")
         + CountOf(passes_run, "align") = 0
  /\ ipc = "returned" =>
       /\ passes_run = ExpectedPasses
       /\ ~measuring =>
            /\ passes_run[Len(passes_run)] = "align"
            /\ (WrapStyle = "Balance") = (CountOf(passes_run, "make_balanced_text") = 1)
            /\ (WrapStyle = "Pretty") = (CountOf(passes_run, "make_pretty_text") = 1)

\* a call with text-wrap-style balance from the longhand, over a text and
\* an inline box, has returned after break, balance, align
C25_Witness ==
  /\ ipc = "returned"
  /\ ~measuring
  /\ wrap_longhand = "Balance"
  /\ wrap_shorthand = "Pretty"
  /\ inline_items = <<"Text", "Node">>
  /\ passes_run = <<"build", "break_lines", "make_balanced_text", "align">>

====
